---------------------------- MODULE Spec2Model ----------------------------
(***************************************************************************)
(* Rubik's cube state (src/src/cube/mod.rs) and the iterative deepening    *)
(* solver (src/src/solver/mod.rs).                                         *)
(*                                                                         *)
(* A cube is the record [sigma, tau, x, y]: sigma maps corner cubicles to  *)
(* corner cubies, tau maps edge cubicles to edge cubies, x is the corner   *)
(* orientation vector (mod 3) and y the edge orientation vector (mod 2).   *)
(* The tuples X and Y of the source are 0-indexed; here slot i of the      *)
(* source is element i+1 of a sequence.                                    *)
(***************************************************************************)
EXTENDS Integers, Sequences, FiniteSets, TLC

VARIABLES
    cube,              \* the Cube under test
    history,           \* the moves applied to Cube::new() so far, in order
    mode,              \* "apply" | "unmove" | "solve" | "done" | "returned"
    max_depth,         \* IDSolver.max_depth
    current_depth,     \* find_solution: current_depth
    current_solution,  \* find_solution: current_solution (an Option)
    searched,          \* depths dbsearch was invoked with by find_solution
    shortest,          \* least number of moves that solve cube (SolverSpec)
    result,            \* the Vec<Move> find_solution returned
    notation,          \* the strings apply_moves was called with, in order
    superc,            \* the cube superflip returned
    move_count,        \* scramble: turns of its loop still to run
    lookup,            \* the last call of a face-lookup helper and its outcome
    solver,            \* the Solver at work: "IDSolver" | "NullSolver"
    frames,            \* the stack of dbsearch calls in progress (SearchSpec)
    decomp             \* the locals of disjoint_cycle_decompose (CycleSpec)

vars == <<cube, history, mode, shortest, max_depth, current_depth,
          current_solution, searched, result, notation, superc, move_count,
          lookup, solver, frames, decomp>>

-----------------------------------------------------------------------------
(* Bounds of the model *)

\* longest sequence of moves applied to the new cube under Spec
MaxMoves == 3

\* longest run of one and the same move applied to the new cube under Spec
MaxRepeat == 4

\* longest scramble handed to the solver under SolverSpec
MaxScramble == 2

\* largest max_depth IDSolver::with_max_depth is called with under SolverSpec
MaxDepth == 3

\* max_depth: 26u8 of IDSolver::new()
DefaultMaxDepth == 26

\* how many identifiers the mappings drawn for disjoint_cycle_decompose have
MaxIds == 3

\* the largest u8: max_depth, current_depth and maxdepth are of type u8
U8_MAX == 255

\* longest string of arbitrary characters handed to apply_moves
MaxNotation == 3

\* most calls of apply_moves in a row, as in the tests
MaxCalls == 2

\* largest orientation (a u8) handed to a face-lookup helper
MaxOrientation == 3

-----------------------------------------------------------------------------
(* enum Corner, enum Edge, enum Face, enum Move *)

Corner == <<"UFL", "URF", "UBR", "ULB", "DBL", "DLF", "DFR", "DRB">>

Edge == <<"UB", "UR", "UF", "UL", "LB", "RB", "RF", "LF", "DB", "DR", "DF", "DL">>

Face == <<"F", "R", "U", "B", "L", "D">>

Move == <<"F", "R", "U", "B", "L", "D",
          "FPrime", "RPrime", "UPrime", "BPrime", "LPrime", "DPrime">>

Range(s) == {s[i] : i \in DOMAIN s}

Corners == Range(Corner)

Edges == Range(Edge)

Moves == Range(Move)

-----------------------------------------------------------------------------
(* CornerPermutation and EdgePermutation *)

CornerPermutation_default == [c \in Corners |-> c]

EdgePermutation_default == [e \in Edges |-> e]

\* the 4-cycle of corner cubicles of a move: the match of CornerPermutation::permute
corner_cycle(m) ==
    CASE m = "F"      -> <<"URF", "DFR", "DLF", "UFL">>
      [] m = "R"      -> <<"UBR", "DRB", "DFR", "URF">>
      [] m = "U"      -> <<"URF", "UFL", "ULB", "UBR">>
      [] m = "B"      -> <<"ULB", "DBL", "DRB", "UBR">>
      [] m = "L"      -> <<"UFL", "DLF", "DBL", "ULB">>
      [] m = "D"      -> <<"DRB", "DBL", "DLF", "DFR">>
      [] m = "FPrime" -> <<"URF", "UFL", "DLF", "DFR">>
      [] m = "RPrime" -> <<"UBR", "URF", "DFR", "DRB">>
      [] m = "UPrime" -> <<"URF", "UBR", "ULB", "UFL">>
      [] m = "BPrime" -> <<"ULB", "UBR", "DRB", "DBL">>
      [] m = "LPrime" -> <<"UFL", "ULB", "DBL", "DLF">>
      [] m = "DPrime" -> <<"DRB", "DFR", "DLF", "DBL">>

\* the 4-cycle of edge cubicles of a move: the match of EdgePermutation::permute
edge_cycle(m) ==
    CASE m = "F"      -> <<"UF", "RF", "DF", "LF">>
      [] m = "R"      -> <<"UR", "RB", "DR", "RF">>
      [] m = "U"      -> <<"UB", "UR", "UF", "UL">>
      [] m = "B"      -> <<"UB", "LB", "DB", "RB">>
      [] m = "L"      -> <<"UL", "LF", "DL", "LB">>
      [] m = "D"      -> <<"DF", "DR", "DB", "DL">>
      [] m = "FPrime" -> <<"UF", "LF", "DF", "RF">>
      [] m = "RPrime" -> <<"UR", "RF", "DR", "RB">>
      [] m = "UPrime" -> <<"UB", "UL", "UF", "UR">>
      [] m = "BPrime" -> <<"UB", "RB", "DB", "LB">>
      [] m = "LPrime" -> <<"UL", "LB", "DL", "LF">>
      [] m = "DPrime" -> <<"DF", "DL", "DB", "DR">>

\* HashMap::insert(k, v) on a map that holds k (the maps hold every cubicle
\* from default() on): the value at k is replaced
insert(map, k, v) == [map EXCEPT ![k] = v]

\* the four inserts done on self.map itself: each read sees the earlier writes
permute_cycle_in_place(map, cycle) ==
    LET m1 == insert(map, cycle[2], map[cycle[1]])
        m2 == insert(m1,  cycle[3], m1[cycle[2]])
        m3 == insert(m2,  cycle[4], m2[cycle[3]])
        m4 == insert(m3,  cycle[1], m3[cycle[4]])
    IN  m4

\* HashMap::get(&cubicle) is Some
contains_key(map, cubicle) == cubicle \in DOMAIN map

\* CornerPermutation::get and EdgePermutation::get: the unwrap() of a None
get_panics(map, cubicle) == ~ contains_key(map, cubicle)

\* permute: one of the four self.map.get(&cycle.i).unwrap() is of a None
permute_panics(map, cycle) ==
    \E i \in DOMAIN cycle : get_panics(map, cycle[i])

\* new_map = self.map.clone(); four inserts that read self.map; self.map = new_map
permute_cycle(map, cycle) ==
    LET m1 == insert(map, cycle[2], map[cycle[1]])
        m2 == insert(m1,  cycle[3], map[cycle[2]])
        m3 == insert(m2,  cycle[4], map[cycle[3]])
        m4 == insert(m3,  cycle[1], map[cycle[4]])
    IN  m4

\* FPrime given the cycle of F (the arm copied, its cycle not reversed)
CornerPermutation_permute_prime_copy(map, m) ==
    permute_cycle(map, IF m = "FPrime" THEN corner_cycle("F") ELSE corner_cycle(m))

\* the last cubicle of the cycle of B mistyped: URF for UBR
CornerPermutation_permute_typo_in_B(map, m) ==
    permute_cycle(map, IF m = "B" THEN <<"ULB", "DBL", "DRB", "URF">>
                       ELSE corner_cycle(m))

CornerPermutation_permute(map, m) == permute_cycle(map, corner_cycle(m))

\* DPrime given the cycle of D (the arm copied, its cycle not reversed)
EdgePermutation_permute_prime_copy(map, m) ==
    permute_cycle(map, IF m = "DPrime" THEN edge_cycle("D") ELSE edge_cycle(m))

\* R given the cycle of L (the arm copied, its cycle not replaced)
EdgePermutation_permute_arm_of_L(map, m) ==
    permute_cycle(map, IF m = "R" THEN edge_cycle("L") ELSE edge_cycle(m))

EdgePermutation_permute(map, m) == permute_cycle(map, edge_cycle(m))

-----------------------------------------------------------------------------
(* X and Y: the orientation vectors *)

X_default == <<0, 0, 0, 0, 0, 0, 0, 0>>

Y_default == <<0, 0, 0, 0, 0, 0, 0, 0, 0, 0, 0, 0>>

\* the arm for 7 is missing from the match
valid_x_index_no_7(i) == i \in 0..6

\* the arms 0 ..= 7 of the match of swap_x; any other i is the arm _
valid_x_index(i) == i \in 0..7

\* swap_x: panic!("Invalid index for X tuple")
swap_x_panics(indices) ==
    \E curr \in DOMAIN indices : ~ valid_x_index(indices[curr])

\* the arms 0 ..= 11 of the match of swap_y; any other i is the arm _
valid_y_index(i) == i \in 0..11

\* swap_y: panic!("Invalid index for Y tuple")
swap_y_panics(indices) ==
    \E curr \in DOMAIN indices : ~ valid_y_index(indices[curr])

\* the slots of values are overwritten one after the other, without the
\* array swapped: a slot read after it was written gives its new content
swap_x_in_place(values, indices) ==
    LET v1 == [values EXCEPT ![1] = values[indices[1] + 1]]
        v2 == [v1 EXCEPT ![2] = v1[indices[2] + 1]]
        v3 == [v2 EXCEPT ![3] = v2[indices[3] + 1]]
        v4 == [v3 EXCEPT ![4] = v3[indices[4] + 1]]
        v5 == [v4 EXCEPT ![5] = v4[indices[5] + 1]]
        v6 == [v5 EXCEPT ![6] = v5[indices[6] + 1]]
        v7 == [v6 EXCEPT ![7] = v6[indices[7] + 1]]
        v8 == [v7 EXCEPT ![8] = v7[indices[8] + 1]]
    IN  v8

\* swapped[curr] = values.i for the i at position curr of indices
swap_x(values, indices) ==
    << values[indices[1] + 1], values[indices[2] + 1],
       values[indices[3] + 1], values[indices[4] + 1],
       values[indices[5] + 1], values[indices[6] + 1],
       values[indices[7] + 1], values[indices[8] + 1] >>

add_x(values, addends) ==
    << (values[1] + addends[1]) % 3, (values[2] + addends[2]) % 3,
       (values[3] + addends[3]) % 3, (values[4] + addends[4]) % 3,
       (values[5] + addends[5]) % 3, (values[6] + addends[6]) % 3,
       (values[7] + addends[7]) % 3, (values[8] + addends[8]) % 3 >>

\* the sums are reduced modulo 3, as those of add_x are
add_y_mod_3(values, addends) ==
    << (values[1] + addends[1]) % 3,   (values[2] + addends[2]) % 3,
       (values[3] + addends[3]) % 3,   (values[4] + addends[4]) % 3,
       (values[5] + addends[5]) % 3,   (values[6] + addends[6]) % 3,
       (values[7] + addends[7]) % 3,   (values[8] + addends[8]) % 3,
       (values[9] + addends[9]) % 3,   (values[10] + addends[10]) % 3,
       (values[11] + addends[11]) % 3, (values[12] + addends[12]) % 3 >>

\* the content of slot curr is sent to slot i instead of fetched from it
swap_y_reversed(values, indices) ==
    [i \in 1..12 |->
        values[CHOOSE curr \in 1..12 : indices[curr] + 1 = i]]

swap_y(values, indices) ==
    << values[indices[1] + 1],  values[indices[2] + 1],
       values[indices[3] + 1],  values[indices[4] + 1],
       values[indices[5] + 1],  values[indices[6] + 1],
       values[indices[7] + 1],  values[indices[8] + 1],
       values[indices[9] + 1],  values[indices[10] + 1],
       values[indices[11] + 1], values[indices[12] + 1] >>

add_y(values, addends) ==
    << (values[1] + addends[1]) % 2,   (values[2] + addends[2]) % 2,
       (values[3] + addends[3]) % 2,   (values[4] + addends[4]) % 2,
       (values[5] + addends[5]) % 2,   (values[6] + addends[6]) % 2,
       (values[7] + addends[7]) % 2,   (values[8] + addends[8]) % 2,
       (values[9] + addends[9]) % 2,   (values[10] + addends[10]) % 2,
       (values[11] + addends[11]) % 2, (values[12] + addends[12]) % 2 >>

zeros8 == <<0, 0, 0, 0, 0, 0, 0, 0>>

zeros12 == <<0, 0, 0, 0, 0, 0, 0, 0, 0, 0, 0, 0>>

\* (swap_indices, addends) for x: the first match of Cube::apply_move
x_tables(m) ==
    CASE m = "F"      -> << <<5,0,2,3,4,6,1,7>>, <<1,2,0,0,0,2,1,0>> >>
      [] m = "R"      -> << <<0,6,1,3,4,5,7,2>>, <<0,1,2,0,0,0,2,1>> >>
      [] m = "U"      -> << <<1,2,3,0,4,5,6,7>>, zeros8 >>
      [] m = "B"      -> << <<0,1,7,2,3,5,6,4>>, <<0,0,1,2,1,0,0,2>> >>
      [] m = "L"      -> << <<3,1,2,4,5,0,6,7>>, <<2,0,0,1,2,1,0,0>> >>
      [] m = "D"      -> << <<0,1,2,3,7,4,5,6>>, zeros8 >>
      [] m = "FPrime" -> << <<1,6,2,3,4,0,5,7>>, <<1,2,0,0,0,2,1,0>> >>
      [] m = "RPrime" -> << <<0,2,7,3,4,5,1,6>>, <<0,1,2,0,0,0,2,1>> >>
      [] m = "UPrime" -> << <<3,0,1,2,4,5,6,7>>, zeros8 >>
      [] m = "BPrime" -> << <<0,1,3,4,7,5,6,2>>, <<0,0,1,2,1,0,0,2>> >>
      [] m = "LPrime" -> << <<5,1,2,0,3,4,6,7>>, <<2,0,0,1,2,1,0,0>> >>
      [] m = "DPrime" -> << <<0,1,2,3,5,6,7,4>>, zeros8 >>

\* (swap_indices, addends) for y: the second match of Cube::apply_move
y_tables(m) ==
    CASE m = "F"      -> << <<0,1,7,3,4,5,2,10,8,9,6,11>>, <<0,0,1,0,0,0,1,1,0,0,1,0>> >>
      [] m = "R"      -> << <<0,6,2,3,4,1,9,7,8,5,10,11>>, zeros12 >>
      [] m = "U"      -> << <<3,0,1,2,4,5,6,7,8,9,10,11>>, zeros12 >>
      [] m = "B"      -> << <<5,1,2,3,0,8,6,7,4,9,10,11>>, <<1,0,0,0,1,1,0,0,1,0,0,0>> >>
      [] m = "L"      -> << <<0,1,2,4,11,5,6,3,8,9,10,7>>, zeros12 >>
      [] m = "D"      -> << <<0,1,2,3,4,5,6,7,9,10,11,8>>, zeros12 >>
      [] m = "FPrime" -> << <<0,1,6,3,4,5,10,2,8,9,7,11>>, <<0,0,1,0,0,0,1,1,0,0,1,0>> >>
      [] m = "RPrime" -> << <<0,5,2,3,4,9,1,7,8,6,10,11>>, zeros12 >>
      [] m = "UPrime" -> << <<1,2,3,0,4,5,6,7,8,9,10,11>>, zeros12 >>
      [] m = "BPrime" -> << <<4,1,2,3,8,0,6,7,5,9,10,11>>, <<1,0,0,0,1,1,0,0,1,0,0,0>> >>
      [] m = "LPrime" -> << <<0,1,2,7,3,5,6,11,8,9,10,4>>, zeros12 >>
      [] m = "DPrime" -> << <<0,1,2,3,4,5,6,7,11,8,9,10>>, zeros12 >>

-----------------------------------------------------------------------------
(* Cube *)

Cube_new ==
    [sigma |-> CornerPermutation_default,
     tau   |-> EdgePermutation_default,
     x     |-> X_default,
     y     |-> Y_default]

\* one corner addend of F mistyped: 1 at slot 6 written as 2
apply_move_addend_typo(c, m) ==
    [sigma |-> CornerPermutation_permute(c.sigma, m),
     tau   |-> EdgePermutation_permute(c.tau, m),
     x     |-> add_x(swap_x(c.x, x_tables(m)[1]),
                     IF m = "F" THEN <<1,2,0,0,0,2,2,0>> ELSE x_tables(m)[2]),
     y     |-> add_y(swap_y(c.y, y_tables(m)[1]), y_tables(m)[2])]

\* the edge permutation is left as it is
apply_move_tau_kept(c, m) ==
    [sigma |-> CornerPermutation_permute(c.sigma, m),
     tau   |-> c.tau,
     x     |-> add_x(swap_x(c.x, x_tables(m)[1]), x_tables(m)[2]),
     y     |-> add_y(swap_y(c.y, y_tables(m)[1]), y_tables(m)[2])]

apply_move(c, m) ==
    [sigma |-> CornerPermutation_permute(c.sigma, m),
     tau   |-> EdgePermutation_permute(c.tau, m),
     x     |-> add_x(swap_x(c.x, x_tables(m)[1]), x_tables(m)[2]),
     y     |-> add_y(swap_y(c.y, y_tables(m)[1]), y_tables(m)[2])]

\* the four comparisons joined by || instead of &&
\* apply_move(c, m) does not return: one of its calls panics
apply_move_panics(c, m) ==
    \/ permute_panics(c.sigma, corner_cycle(m))
    \/ permute_panics(c.tau, edge_cycle(m))
    \/ swap_x_panics(x_tables(m)[1])
    \/ swap_y_panics(y_tables(m)[1])

is_solved_any(c) ==
    \/ c.sigma = CornerPermutation_default
    \/ c.tau = EdgePermutation_default
    \/ c.x = X_default
    \/ c.y = Y_default

is_solved(c) ==
    /\ c.sigma = CornerPermutation_default
    /\ c.tau = EdgePermutation_default
    /\ c.x = X_default
    /\ c.y = Y_default

\* for m in movelist { self.apply_move(m) }
\* (the test s = s makes TLC compute each cube before the next move is
\* applied to it; left unevaluated, the cubes of a long list nest too deep)
RECURSIVE apply_movelist(_, _)
apply_movelist(c, movelist) ==
    IF movelist = <<>> THEN c
    ELSE LET s == apply_move(c, Head(movelist))
         IN  IF s = s THEN apply_movelist(s, Tail(movelist)) ELSE s

-----------------------------------------------------------------------------
(* Cube::get_face and the helpers that find the visible face of a cubie *)

decompose_corner(corner) ==
    CASE corner = "UFL" -> <<"U", "F", "L">>
      [] corner = "URF" -> <<"U", "R", "F">>
      [] corner = "UBR" -> <<"U", "B", "R">>
      [] corner = "ULB" -> <<"U", "L", "B">>
      [] corner = "DBL" -> <<"D", "B", "L">>
      [] corner = "DLF" -> <<"D", "L", "F">>
      [] corner = "DFR" -> <<"D", "F", "R">>
      [] corner = "DRB" -> <<"D", "R", "B">>

\* the rotations of orientation 1 and of the other orientations exchanged
orient_corner_swapped(corner, orientation) ==
    LET faces == decompose_corner(corner)
    IN  IF orientation = 0 THEN faces
        ELSE IF orientation = 1 THEN <<faces[3], faces[1], faces[2]>>
        ELSE <<faces[2], faces[3], faces[1]>>

\* faces.0, faces.1, faces.2 of the source are faces[1], faces[2], faces[3]
orient_corner(corner, orientation) ==
    LET faces == decompose_corner(corner)
    IN  IF orientation = 0 THEN faces
        ELSE IF orientation = 1 THEN <<faces[2], faces[3], faces[1]>>
        ELSE <<faces[3], faces[1], faces[2]>>

\* the first face of the oriented cubie, whatever face is asked for
get_corner_face_first(cubicle, cubie, face, orientation) ==
    orient_corner(cubie, orientation)[1]

get_corner_face(cubicle, cubie, face, orientation) ==
    LET oriented_cubie == orient_corner(cubie, orientation)
        faces          == decompose_corner(cubicle)
    IN  IF faces[1] = face THEN oriented_cubie[1]
        ELSE IF faces[2] = face THEN oriented_cubie[2]
        ELSE oriented_cubie[3]

decompose_edge(edge) ==
    CASE edge = "UB" -> <<"U", "B">>
      [] edge = "UR" -> <<"U", "R">>
      [] edge = "UF" -> <<"U", "F">>
      [] edge = "UL" -> <<"U", "L">>
      [] edge = "LB" -> <<"B", "L">>
      [] edge = "RB" -> <<"B", "R">>
      [] edge = "RF" -> <<"F", "R">>
      [] edge = "LF" -> <<"F", "L">>
      [] edge = "DB" -> <<"D", "B">>
      [] edge = "DR" -> <<"D", "R">>
      [] edge = "DF" -> <<"D", "F">>
      [] edge = "DL" -> <<"D", "L">>

\* the orientation is ignored
orient_edge_unflipped(edge, orientation) == decompose_edge(edge)

orient_edge(edge, orientation) ==
    LET faces == decompose_edge(edge)
    IN  IF orientation = 0 THEN faces
        ELSE <<faces[2], faces[1]>>

get_edge_face(cubicle, cubie, face, orientation) ==
    LET oriented_edge == orient_edge(cubie, orientation)
        faces         == decompose_edge(cubicle)
    IN  IF faces[1] = face THEN oriented_edge[1]
        ELSE oriented_edge[2]

\* the position of an element in one of the sequences Corner and Edge
index_of(seq, e) == CHOOSE i \in DOMAIN seq : seq[i] = e

\* UFL => self.x.0, URF => self.x.1, ... : the order of enum Corner
get_corner_orientation(c, corner) == c.x[index_of(Corner, corner)]

\* UB => self.y.0, UR => self.y.1, ... : the order of enum Edge
get_edge_orientation(c, edge) == c.y[index_of(Edge, edge)]

\* the corner cubicles of a face, clockwise from top left
face_corners(face) ==
    CASE face = "F" -> <<"UFL", "URF", "DFR", "DLF">>
      [] face = "R" -> <<"URF", "UBR", "DRB", "DFR">>
      [] face = "U" -> <<"ULB", "UBR", "URF", "UFL">>
      [] face = "B" -> <<"UBR", "ULB", "DBL", "DRB">>
      [] face = "L" -> <<"ULB", "UFL", "DLF", "DBL">>
      [] face = "D" -> <<"DLF", "DFR", "DRB", "DBL">>

\* the edge cubicles of a face, clockwise from the top
face_edges(face) ==
    CASE face = "F" -> <<"UF", "RF", "DF", "LF">>
      [] face = "R" -> <<"UR", "RB", "DR", "RF">>
      [] face = "U" -> <<"UB", "UR", "UF", "UL">>
      [] face = "B" -> <<"UB", "LB", "DB", "RB">>
      [] face = "L" -> <<"UL", "LF", "DL", "LB">>
      [] face = "D" -> <<"DF", "DR", "DB", "DL">>

\* corner_faces[i] and edge_faces[i] of the source are element i+1 here
get_face(c, face) ==
    LET corners == face_corners(face)
        edges   == face_edges(face)
        corner_faces == [i \in 1..4 |->
            get_corner_face(corners[i], c.sigma[corners[i]], face,
                            get_corner_orientation(c, corners[i]))]
        edge_faces == [i \in 1..4 |->
            get_edge_face(edges[i], c.tau[edges[i]], face,
                          get_edge_orientation(c, edges[i]))]
    IN  <<corner_faces[1], edge_faces[1], corner_faces[2],
          edge_faces[4],   face,          edge_faces[2],
          corner_faces[4], edge_faces[3], corner_faces[3]>>

-----------------------------------------------------------------------------
(* Cube::apply_moves. A &str is the sequence of its chars, each char a     *)
(* string of length one; the grave accent is written "backtick" and        *)
(* U+2032 is written "prime".                                              *)

\* the outcome of a call that may panic: the value v it computes, or a
\* panic!() unwinding out of it
Panic == [panicked |-> TRUE, v |-> <<>>]

Ok(v) == [panicked |-> FALSE, v |-> v]

\* a panic!() unwinding out of a call on &mut self that leaves self as v
Panicked(v) == [panicked |-> TRUE, v |-> v]

\* panic!("Invalid move: {}", ..) of the two conversions to a Move
InvalidMove == "Invalid move"

\* impl From<char> for Move
Move_from_char(c) ==
    CASE c = "F" -> "F"
      [] c = "R" -> "R"
      [] c = "U" -> "U"
      [] c = "B" -> "B"
      [] c = "L" -> "L"
      [] c = "D" -> "D"
      [] OTHER   -> InvalidMove

\* impl From<&str> for Move
Move_from_str(s) ==
    CASE s = <<"F">>      -> "F"
      [] s = <<"R">>      -> "R"
      [] s = <<"U">>      -> "U"
      [] s = <<"B">>      -> "B"
      [] s = <<"L">>      -> "L"
      [] s = <<"D">>      -> "D"
      [] s = <<"F", "'">> -> "FPrime"
      [] s = <<"R", "'">> -> "RPrime"
      [] s = <<"U", "'">> -> "UPrime"
      [] s = <<"B", "'">> -> "BPrime"
      [] s = <<"L", "'">> -> "LPrime"
      [] s = <<"D", "'">> -> "DPrime"
      [] OTHER            -> InvalidMove

face_letters == {"F", "R", "U", "B", "L", "D"}

prime_marks == {"'", "backtick", "prime"}

\* the prime mark pushes XPrime and leaves the X pushed before it
parse_char_no_pop(movelist, prevch, ch) ==
    IF ch \in face_letters THEN
        Ok(Append(movelist, Move_from_char(ch)))
    ELSE IF ch = "2" THEN
        IF Move_from_char(prevch) = InvalidMove THEN Panic
        ELSE Ok(Append(movelist, Move_from_char(prevch)))
    ELSE IF ch \in prime_marks THEN
        IF prevch \in face_letters
        THEN Ok(Append(movelist, Move_from_str(<<prevch, "'">>)))
        ELSE Panic
    ELSE Panic

\* a '2' that follows a modifier repeats the move pushed last
parse_char_two_repeats_last(movelist, prevch, ch) ==
    IF ch \in face_letters THEN
        Ok(Append(movelist, Move_from_char(ch)))
    ELSE IF ch = "2" THEN
        IF Move_from_char(prevch) = InvalidMove
        THEN IF movelist = <<>> THEN Panic
             ELSE Ok(Append(movelist, movelist[Len(movelist)]))
        ELSE Ok(Append(movelist, Move_from_char(prevch)))
    ELSE IF ch \in prime_marks THEN
        IF prevch \in face_letters
        THEN Ok(Append(SubSeq(movelist, 1, Len(movelist) - 1),
                       Move_from_str(<<prevch, "'">>)))
        ELSE Panic
    ELSE Panic

\* the body of the loop over moves.chars(), for one ch: the movelist after
\* it, or a panic of Move::from or of one of the two panic!() arms
parse_char(movelist, prevch, ch) ==
    IF ch \in face_letters THEN
        Ok(Append(movelist, Move_from_char(ch)))
    ELSE IF ch = "2" THEN
        IF Move_from_char(prevch) = InvalidMove THEN Panic
        ELSE Ok(Append(movelist, Move_from_char(prevch)))
    ELSE IF ch \in prime_marks THEN
        IF prevch \in face_letters
        THEN Ok(Append(SubSeq(movelist, 1, Len(movelist) - 1),
                       Move_from_str(<<prevch, "'">>)))
        ELSE Panic
    ELSE Panic

\* the loop over moves.chars() from the i-th char on; prevch = ch after
\* each turn
RECURSIVE parse_from(_, _, _, _)
parse_from(moves, i, movelist, prevch) ==
    IF i > Len(moves) THEN Ok(movelist)
    ELSE LET next == parse_char(movelist, prevch, moves[i])
         IN  IF next.panicked THEN Panic
             ELSE parse_from(moves, i + 1, next.v, moves[i])

\* movelist after the loop, entered with movelist empty and prevch = 'X'
parse(moves) == parse_from(moves, 1, <<>>, "X")

\* the movelist the loop over moves.chars() has built when it ends or panics
RECURSIVE parsed_prefix(_, _, _, _)
parsed_prefix(moves, i, movelist, prevch) ==
    IF i > Len(moves) THEN movelist
    ELSE LET next == parse_char(movelist, prevch, moves[i])
         IN  IF next.panicked THEN movelist
             ELSE parsed_prefix(moves, i + 1, next.v, moves[i])

\* the moves parsed before the offending character are applied
apply_moves_prefix_applied(c, moves) ==
    LET movelist == parse(moves)
        applied  == apply_movelist(c, parsed_prefix(moves, 1, <<>>, "X"))
    IN  IF movelist.panicked THEN Panicked(applied)
        ELSE Ok(applied)

\* c.apply_moves(moves): the cube it leaves, and whether it panicked. The
\* loop over moves.chars() is the only place that panics and it is over
\* before the first apply_move, so a panic leaves the cube as it was.
apply_moves(c, moves) ==
    LET movelist == parse(moves)
    IN  IF movelist.panicked THEN Panicked(c)
        ELSE Ok(apply_movelist(c, movelist.v))

-----------------------------------------------------------------------------
(* src/cube.rs: the cube with the six clockwise moves only. Its helper      *)
(* functions (swap_x, add_x, swap_y, add_y, the four inserts of permute,    *)
(* get_corner_face, get_edge_face, get_*_orientation, Move::from(char))     *)
(* read as those of src/cube/mod.rs and are not written a second time.      *)

\* enum Move of cube.rs
cube_rs_Move == <<"F", "R", "U", "B", "L", "D">>

\* the match of CornerPermutation::permute of cube.rs
cube_rs_corner_cycle(m) ==
    CASE m = "F" -> <<"URF", "DFR", "DLF", "UFL">>
      [] m = "R" -> <<"UBR", "DRB", "DFR", "URF">>
      [] m = "U" -> <<"URF", "UFL", "ULB", "UBR">>
      [] m = "B" -> <<"ULB", "DBL", "DRB", "UBR">>
      [] m = "L" -> <<"UFL", "DLF", "DBL", "ULB">>
      [] m = "D" -> <<"DRB", "DBL", "DLF", "DFR">>

\* the match of EdgePermutation::permute of cube.rs
cube_rs_edge_cycle(m) ==
    CASE m = "F" -> <<"UF", "RF", "DF", "LF">>
      [] m = "R" -> <<"UR", "RB", "DR", "RF">>
      [] m = "U" -> <<"UB", "UR", "UF", "UL">>
      [] m = "B" -> <<"UB", "LB", "DB", "RB">>
      [] m = "L" -> <<"UL", "LF", "DL", "LB">>
      [] m = "D" -> <<"DF", "DR", "DB", "DL">>

\* (swap_indices, addends) for x: the first match of apply_move of cube.rs
cube_rs_x_tables(m) ==
    CASE m = "F" -> << <<5,0,2,3,4,6,1,7>>, <<1,2,0,0,0,2,1,0>> >>
      [] m = "R" -> << <<0,6,1,3,4,5,7,2>>, <<0,1,2,0,0,0,2,1>> >>
      [] m = "U" -> << <<1,2,3,0,4,5,6,7>>, zeros8 >>
      [] m = "B" -> << <<0,1,7,2,3,5,6,4>>, <<0,0,1,2,1,0,0,2>> >>
      [] m = "L" -> << <<3,1,2,4,5,0,6,7>>, <<2,0,0,1,2,1,0,0>> >>
      [] m = "D" -> << <<0,1,2,3,7,4,5,6>>, zeros8 >>

\* (swap_indices, addends) for y: the second match of apply_move of cube.rs
cube_rs_y_tables(m) ==
    CASE m = "F" -> << <<0,1,7,3,4,5,2,10,8,9,6,11>>, <<0,0,1,0,0,0,1,1,0,0,1,0>> >>
      [] m = "R" -> << <<0,6,2,3,4,1,9,7,8,5,10,11>>, zeros12 >>
      [] m = "U" -> << <<3,0,1,2,4,5,6,7,8,9,10,11>>, zeros12 >>
      [] m = "B" -> << <<5,1,2,3,0,8,6,7,4,9,10,11>>, <<1,0,0,0,1,1,0,0,1,0,0,0>> >>
      [] m = "L" -> << <<0,1,2,4,11,5,6,3,8,9,10,7>>, zeros12 >>
      [] m = "D" -> << <<0,1,2,3,4,5,6,7,9,10,11,8>>, zeros12 >>

\* Cube::apply_move of cube.rs
cube_rs_apply_move(c, m) ==
    [sigma |-> permute_cycle(c.sigma, cube_rs_corner_cycle(m)),
     tau   |-> permute_cycle(c.tau, cube_rs_edge_cycle(m)),
     x     |-> add_x(swap_x(c.x, cube_rs_x_tables(m)[1]), cube_rs_x_tables(m)[2]),
     y     |-> add_y(swap_y(c.y, cube_rs_y_tables(m)[1]), cube_rs_y_tables(m)[2])]

\* for m in movelist { self.apply_move(m) } of cube.rs
RECURSIVE cube_rs_apply_movelist(_, _)
cube_rs_apply_movelist(c, movelist) ==
    IF movelist = <<>> THEN c
    ELSE LET s == cube_rs_apply_move(c, Head(movelist))
         IN  IF s = s THEN cube_rs_apply_movelist(s, Tail(movelist)) ELSE s

\* the prime mark pushes the move of prevch once, not twice
cube_rs_parse_char_one_push(movelist, prevch, ch) ==
    IF ch \in face_letters THEN
        Ok(Append(movelist, Move_from_char(ch)))
    ELSE IF ch = "2" \/ ch \in prime_marks THEN
        IF Move_from_char(prevch) = InvalidMove THEN Panic
        ELSE Ok(Append(movelist, Move_from_char(prevch)))
    ELSE Panic

\* the body of the loop over moves.chars() of cube.rs, for one ch: a face
\* letter pushes its move, '2' pushes Move::from(prevch), a prime mark
\* pushes Move::from(prevch) twice; Move::from panics unless prevch is a
\* face letter
cube_rs_parse_char(movelist, prevch, ch) ==
    IF ch \in face_letters THEN
        Ok(Append(movelist, Move_from_char(ch)))
    ELSE IF ch = "2" THEN
        IF Move_from_char(prevch) = InvalidMove THEN Panic
        ELSE Ok(Append(movelist, Move_from_char(prevch)))
    ELSE IF ch \in prime_marks THEN
        IF Move_from_char(prevch) = InvalidMove THEN Panic
        ELSE Ok(Append(Append(movelist, Move_from_char(prevch)),
                       Move_from_char(prevch)))
    ELSE Panic

RECURSIVE cube_rs_parse_from(_, _, _, _)
cube_rs_parse_from(moves, i, movelist, prevch) ==
    IF i > Len(moves) THEN Ok(movelist)
    ELSE LET next == cube_rs_parse_char(movelist, prevch, moves[i])
         IN  IF next.panicked THEN Panic
             ELSE cube_rs_parse_from(moves, i + 1, next.v, moves[i])

\* Cube::apply_moves of cube.rs: the cube it leaves, and whether it panicked
cube_rs_apply_moves(c, moves) ==
    LET movelist == cube_rs_parse_from(moves, 1, <<>>, "X")
    IN  IF movelist.panicked THEN Panicked(c)
        ELSE Ok(cube_rs_apply_movelist(c, movelist.v))

\* the corner cubicles of a face in get_face of cube.rs
cube_rs_face_corners(face) ==
    CASE face = "F" -> <<"UFL", "URF", "DFR", "DLF">>
      [] face = "R" -> <<"URF", "UBR", "DRB", "DFR">>
      [] face = "U" -> <<"ULB", "UBR", "URF", "UFL">>
      [] face = "B" -> <<"UBR", "ULB", "DBL", "DRB">>
      [] face = "L" -> <<"ULB", "UFL", "DLF", "DBL">>
      [] face = "D" -> <<"DLF", "DFR", "DRB", "DBL">>

\* the edge cubicles of a face in get_face of cube.rs
cube_rs_face_edges(face) ==
    CASE face = "F" -> <<"UF", "RF", "DF", "LF">>
      [] face = "R" -> <<"UR", "RB", "DR", "RF">>
      [] face = "U" -> <<"UB", "UR", "UF", "UL">>
      [] face = "B" -> <<"UB", "LB", "DB", "RB">>
      [] face = "L" -> <<"UL", "LF", "DL", "LB">>
      [] face = "D" -> <<"DF", "DR", "DB", "DL">>

\* Cube::get_face of cube.rs: the arrays filled by the loop for i in 0..4,
\* center = face
cube_rs_get_face(c, face) ==
    LET center  == face
        corners == cube_rs_face_corners(face)
        edges   == cube_rs_face_edges(face)
        corner_faces == [i \in 1..4 |->
            get_corner_face(corners[i], c.sigma[corners[i]], face,
                            get_corner_orientation(c, corners[i]))]
        edge_faces == [i \in 1..4 |->
            get_edge_face(edges[i], c.tau[edges[i]], face,
                          get_edge_orientation(c, edges[i]))]
    IN  <<corner_faces[1], edge_faces[1], corner_faces[2],
          edge_faces[4],   center,        edge_faces[2],
          corner_faces[4], edge_faces[3], corner_faces[3]>>

\* the strings the tests and the examples hand to apply_moves
\* "R'UR'D2RU'R'D2R2" (test_permute_bottom_corners)
bottom_corners_1 ==
    <<"R", "'", "U", "R", "'", "D", "2", "R", "U", "'", "R", "'", "D", "2",
      "R", "2">>

\* "R2D2RUR'D2RU'R" (test_permute_bottom_corners)
bottom_corners_2 ==
    <<"R", "2", "D", "2", "R", "U", "R", "'", "D", "2", "R", "U", "'", "R">>

\* "FF'" (test_f_fprime)
f_fprime ==
    <<"F", "F", "'">>

\* "RR'" (test_r_rprime)
r_rprime ==
    <<"R", "R", "'">>

\* "UU'" (test_u_uprime)
u_uprime ==
    <<"U", "U", "'">>

\* "BB'" (test_b_bprime)
b_bprime ==
    <<"B", "B", "'">>

\* "LL'" (test_l_lprime)
l_lprime ==
    <<"L", "L", "'">>

\* "DD'" (test_d_dprime)
d_dprime ==
    <<"D", "D", "'">>

\* "FRUBLD" (test_move_and_unmove)
move ==
    <<"F", "R", "U", "B", "L", "D">>

\* "D'L'B'U'R'F'" (test_move_and_unmove)
unmove ==
    <<"D", "'", "L", "'", "B", "'", "U", "'", "R", "'", "F", "'">>

\* "R2U'FLB2" (test_moved_faces)
moved_faces_notation ==
    <<"R", "2", "U", "'", "F", "L", "B", "2">>

\* "FUR" (the example of apply_moves)
scramble_a_little ==
    <<"F", "U", "R">>

\* "R'U'F'" (the example of apply_moves)
undo_the_moves ==
    <<"R", "'", "U", "'", "F", "'">>

\* "F'U'D'" (the example of IDSolver)
ids_example ==
    <<"F", "'", "U", "'", "D", "'">>

\* "UR2FBRB2RU2LB2RU'D'R2FR'LB2U2F2" (superflip)
superflip_notation ==
    <<"U", "R", "2", "F", "B", "R", "B", "2", "R", "U", "2", "L", "B", "2",
      "R", "U", "'", "D", "'", "R", "2", "F", "R", "'", "L", "B", "2", "U",
      "2", "F", "2">>

DocNotations ==
    {bottom_corners_1, bottom_corners_2, f_fprime, r_rprime, u_uprime,
     b_bprime, l_lprime, d_dprime, move, unmove, moved_faces_notation,
     scramble_a_little, undo_the_moves, ids_example}

\* the allowed characters and one that is not allowed
Alphabet == face_letters \cup prime_marks \cup {"2", "X"}

\* every string of at most MaxNotation characters of Alphabet
ShortNotations ==
    UNION {[1..n -> Alphabet] : n \in 0..MaxNotation}

-----------------------------------------------------------------------------
(* IDSolver: dbsearch *)

\* Option<Vec<Move>>
None == [is_some |-> FALSE, v |-> <<>>]

Some(moves) == [is_some |-> TRUE, v |-> moves]

\* the six clockwise moves only
possible_moves_clockwise == SubSeq(Move, 1, 6)

\* the counter-clockwise moves come first
possible_moves_primes_first == SubSeq(Move, 7, 12) \o SubSeq(Move, 1, 6)

\* the array possible_moves of dbsearch, in its order
possible_moves == Move

RECURSIVE dbsearch(_, _)
RECURSIVE dbsearch_loop(_, _, _)

\* the moves found below m are not appended to moves
dbsearch_loop_no_append(start, maxdepth, i) ==
    IF i > Len(possible_moves) THEN None
    ELSE LET m  == possible_moves[i]
             s  == apply_move(start, m)
             ms == dbsearch(s, maxdepth - 1)
         IN  IF is_solved(s) THEN Some(<<m>>)
             ELSE IF ms.is_some THEN Some(<<m>>)
             ELSE dbsearch_loop(start, maxdepth, i + 1)

\* the for loop of dbsearch from the i-th element of possible_moves on,
\* entered with moves empty (a move pushed is popped again unless the loop
\* breaks): s = start.clone() with m applied; break with [m] when s is
\* solved; break with [m] ++ ms when the search below s finds ms; else the
\* next move. After the loop, moves is Some when it is not empty.
dbsearch_loop(start, maxdepth, i) ==
    IF i > Len(possible_moves) THEN None
    ELSE LET m  == possible_moves[i]
             s  == apply_move(start, m)
             ms == dbsearch(s, maxdepth - 1)
         IN  IF is_solved(s) THEN Some(<<m>>)
             ELSE IF ms.is_some THEN Some(<<m>> \o ms.v)
             ELSE dbsearch_loop(start, maxdepth, i + 1)

dbsearch(start, maxdepth) ==
    IF maxdepth = 0 THEN None
    ELSE dbsearch_loop(start, maxdepth, 1)

-----------------------------------------------------------------------------
(* The least number of moves that solve a cube, by breadth-first enumeration *)
(* of the cubes k moves away from it; NotWithinHorizon if more than Horizon. *)

Horizon == MaxDepth

NotWithinHorizon == 0 - 1

Step(S) == {apply_move(s, m) : s \in S, m \in Moves}

RECURSIVE shortest_from(_, _)
shortest_from(S, k) ==
    IF \E s \in S : is_solved(s) THEN k
    ELSE IF k >= Horizon THEN NotWithinHorizon
    ELSE shortest_from(Step(S), k + 1)

shortest_solution(c) == shortest_from({c}, 0)

-----------------------------------------------------------------------------
(* The cube under a caller that applies moves one at a time (Spec) *)

Init ==
    /\ cube = Cube_new
    /\ history = <<>>
    /\ mode = "apply"
    /\ shortest = 0
    /\ max_depth = 0
    /\ current_depth = 0
    /\ current_solution = None
    /\ searched = <<>>
    /\ result = <<>>
    /\ notation = <<>>
    /\ superc = "unset"
    /\ move_count = 0
    /\ lookup = [helper |-> "none"]
    /\ solver = "unset"
    /\ frames = <<>>
    /\ decomp = [pc |-> "idle"]

solver_vars ==
    <<shortest, max_depth, current_depth, current_solution, searched, result>>

call_vars == <<notation, superc, move_count>>

aux_vars == <<lookup, solver, frames, decomp>>

\* cube.apply_move(m)
ApplyMove(m) ==
    /\ mode = "apply"
    /\ Len(history) < MaxMoves
    /\ cube' = apply_move(cube, m)
    /\ history' = Append(history, m)
    /\ UNCHANGED <<mode, solver_vars, call_vars, aux_vars>>

\* cube.apply_move(m) by a caller that has applied nothing but m so far
\* (the example of apply_move: F, then F three more times)
RepeatMove(m) ==
    /\ mode = "apply"
    /\ history # <<>>
    /\ Len(history) < MaxRepeat
    /\ \A i \in DOMAIN history : history[i] = m
    /\ cube' = apply_move(cube, m)
    /\ history' = Append(history, m)
    /\ UNCHANGED <<mode, solver_vars, call_vars, aux_vars>>

\* the move a prime mark selects for a face, and back: X <-> XPrime
inverse(m) ==
    CASE m = "F"      -> "FPrime"
      [] m = "R"      -> "RPrime"
      [] m = "U"      -> "UPrime"
      [] m = "B"      -> "BPrime"
      [] m = "L"      -> "LPrime"
      [] m = "D"      -> "DPrime"
      [] m = "FPrime" -> "F"
      [] m = "RPrime" -> "R"
      [] m = "UPrime" -> "U"
      [] m = "BPrime" -> "B"
      [] m = "LPrime" -> "L"
      [] m = "DPrime" -> "D"

Last(s) == s[Len(s)]

Front(s) == SubSeq(s, 1, Len(s) - 1)

\* the caller undoes the last move still standing: cube.apply_move(inverse)
Unmove ==
    /\ mode \in {"apply", "unmove"}
    /\ history # <<>>
    /\ cube' = apply_move(cube, inverse(Last(history)))
    /\ history' = Front(history)
    /\ mode' = "unmove"
    /\ UNCHANGED <<solver_vars, call_vars, aux_vars>>

Next ==
    \/ \E m \in Moves : ApplyMove(m)
    \/ \E m \in Moves : RepeatMove(m)
    \/ Unmove

Spec == Init /\ [][Next]_vars

-----------------------------------------------------------------------------
(* A scrambled cube handed to an IDSolver (SolverSpec) *)

\* one turn of the loop of Cube::scramble: a move drawn from the 12, applied
Scramble(m) ==
    /\ mode = "apply"
    /\ Len(history) < MaxScramble
    /\ cube' = apply_move(cube, m)
    /\ history' = Append(history, m)
    /\ shortest' = shortest_solution(cube')
    /\ UNCHANGED <<mode, max_depth, current_depth, current_solution, searched,
                   result, call_vars, aux_vars>>

\* IDSolver::with_max_depth(d), then find_solution(&cube) up to its loop
FindSolution(d) ==
    /\ mode = "apply"
    /\ max_depth' = d
    /\ current_solution' = None
    /\ current_depth' = 1
    /\ searched' = <<>>
    /\ mode' = "solve"
    /\ solver' = "IDSolver"
    /\ UNCHANGED <<cube, history, shortest, result, call_vars, lookup, frames, decomp>>

\* IDSolver::new(), then find_solution(&cube) up to its loop
FindSolutionDefault ==
    /\ mode = "apply"
    /\ max_depth' = DefaultMaxDepth
    /\ current_solution' = None
    /\ current_depth' = 1
    /\ searched' = <<>>
    /\ mode' = "solve"
    /\ solver' = "IDSolver"
    /\ UNCHANGED <<cube, history, shortest, result, call_vars, lookup, frames, decomp>>

\* the body of IDSolver's find_solution, with the default max_depth
NullFindSolution_searching ==
    /\ mode = "apply"
    /\ max_depth' = DefaultMaxDepth
    /\ current_solution' = None
    /\ current_depth' = 1
    /\ searched' = <<>>
    /\ mode' = "solve"
    /\ solver' = "NullSolver"
    /\ UNCHANGED <<cube, history, shortest, result, call_vars, lookup, frames, decomp>>

\* NullSolver::new(), then find_solution(&cube): vec![]
NullFindSolution ==
    /\ mode = "apply"
    /\ result' = <<>>
    /\ mode' = "done"
    /\ solver' = "NullSolver"
    /\ UNCHANGED <<cube, history, shortest, max_depth, current_depth,
                   current_solution, searched, call_vars, lookup, frames, decomp>>

\* the search stops one depth short of max_depth
loop_condition_short ==
    /\ ~ is_solved(cube)
    /\ current_depth < max_depth
    /\ ~ current_solution.is_some

\* the search goes one depth beyond max_depth
loop_condition_long ==
    /\ ~ is_solved(cube)
    /\ current_depth <= max_depth + 1
    /\ ~ current_solution.is_some

\* a solved cube is searched like any other
loop_condition_unguarded ==
    /\ current_depth <= max_depth
    /\ ~ current_solution.is_some

\* if !cube.is_solved() { while current_depth <= self.max_depth
\*                           && current_solution.is_none() {
loop_condition ==
    /\ ~ is_solved(cube)
    /\ current_depth <= max_depth
    /\ ~ current_solution.is_some

\* one search, at max_depth, instead of one per depth
Search_at_max_depth ==
    /\ mode = "solve"
    /\ loop_condition
    /\ current_solution' = dbsearch(cube, max_depth)
    /\ searched' = Append(searched, max_depth)
    /\ current_depth' = max_depth + 1
    /\ UNCHANGED <<cube, history, mode, shortest, max_depth, result, call_vars,
                   aux_vars>>

\* current_depth is incremented before the search instead of after it
Search_after_increment ==
    /\ mode = "solve"
    /\ loop_condition
    /\ current_solution' = dbsearch(cube, current_depth + 1)
    /\ searched' = Append(searched, current_depth + 1)
    /\ current_depth' = current_depth + 1
    /\ UNCHANGED <<cube, history, mode, shortest, max_depth, result, call_vars,
                   aux_vars>>

\* one turn of the while loop of find_solution
Search ==
    /\ mode = "solve"
    /\ loop_condition
    /\ current_solution' = dbsearch(cube, current_depth)
    /\ searched' = Append(searched, current_depth)
    /\ current_depth' = current_depth + 1
    /\ UNCHANGED <<cube, history, mode, shortest, max_depth, result, call_vars,
                   aux_vars>>

\* if let Some(s) = current_solution { s } else { vec![] }
Return ==
    /\ mode = "solve"
    /\ ~ loop_condition
    /\ result' = IF current_solution.is_some THEN current_solution.v ELSE <<>>
    /\ mode' = "done"
    /\ UNCHANGED <<cube, history, shortest, max_depth, current_depth,
                   current_solution, searched, call_vars, aux_vars>>

\* the moves are returned, the cube is left as it was
Solve_on_clone ==
    /\ mode = "done"
    /\ cube' = cube
    /\ mode' = "returned"
    /\ UNCHANGED <<history, solver_vars, call_vars, aux_vars>>

\* Cube::solve after solver.find_solution(&self) has returned moves:
\* for m in moves.clone() { self.apply_move(m); } moves
Solve ==
    /\ mode = "done"
    /\ cube' = apply_movelist(cube, result)
    /\ mode' = "returned"
    /\ UNCHANGED <<history, solver_vars, call_vars, aux_vars>>

SolverNext ==
    \/ \E m \in Moves : Scramble(m)
    \/ \E d \in 0..MaxDepth : FindSolution(d)
    \/ FindSolutionDefault
    \/ NullFindSolution
    \/ Search
    \/ Return
    \/ Solve

SolverSpec == Init /\ [][SolverNext]_vars

-----------------------------------------------------------------------------
(* The cube under a caller of apply_moves and superflip (NotationSpec) *)

\* the strings the next call of apply_moves may be given: any short string
\* or a string of the tests at first, a string of the tests after strings
\* of the tests
callable ==
    IF notation = <<>> THEN DocNotations \cup ShortNotations
    ELSE IF Len(notation) < MaxCalls
            /\ \A i \in DOMAIN notation : notation[i] \in DocNotations
         THEN DocNotations
         ELSE {}

\* cube.apply_moves(moves)
ApplyMoves(moves) ==
    /\ mode = "apply"
    /\ moves \in callable
    /\ LET after == apply_moves(cube, moves)
       IN  /\ cube' = after.v
           /\ history' = IF after.panicked THEN history
                         ELSE history \o parse(moves).v
           /\ mode' = IF after.panicked THEN "panic" ELSE mode
    /\ notation' = Append(notation, moves)
    /\ UNCHANGED <<solver_vars, superc, move_count, aux_vars>>

\* the cube is turned itself instead of a clone of it
superflip_in_place ==
    /\ mode = "apply"
    /\ cube' = apply_moves(cube, superflip_notation).v
    /\ superc' = cube'
    /\ mode' = "superflip"
    /\ UNCHANGED <<history, solver_vars, notation, move_count, aux_vars>>

\* let superc = superflip(&cube)
superflip ==
    /\ mode = "apply"
    /\ superc' = apply_moves(cube, superflip_notation).v
    /\ mode' = "superflip"
    /\ UNCHANGED <<cube, history, solver_vars, notation, move_count,
                   aux_vars>>

NotationNext ==
    \/ \E moves \in DocNotations \cup ShortNotations : ApplyMoves(moves)
    \/ superflip

NotationSpec == Init /\ [][NotationNext]_vars

-----------------------------------------------------------------------------
(* The cube under Cube::scramble (ScrambleSpec). The moves applied are not  *)
(* kept in history.                                                        *)

\* the move_count of the example of scramble: cube.scramble(20)
ScrambleCount == 20

\* the moves the random source draws under ScrambleSpec
Draws == {"F", "FPrime", "B", "BPrime"}

\* cube.scramble(20) up to its loop
ScrambleCall ==
    /\ mode = "apply"
    /\ move_count' = ScrambleCount
    /\ mode' = "scramble"
    /\ UNCHANGED <<cube, history, solver_vars, notation, superc, aux_vars>>

\* one turn of for _ in 0..move_count: m = rng.choose(&moves), apply_move(m)
ScrambleTurn(m) ==
    /\ mode = "scramble"
    /\ move_count > 0
    /\ cube' = apply_move(cube, m)
    /\ move_count' = move_count - 1
    /\ UNCHANGED <<history, mode, solver_vars, notation, superc, aux_vars>>

\* the loop has run move_count times: scramble returns
ScrambleReturn ==
    /\ mode = "scramble"
    /\ move_count = 0
    /\ mode' = "scrambled"
    /\ UNCHANGED <<cube, history, solver_vars, notation, superc, move_count,
                   aux_vars>>

ScrambleNext ==
    \/ ScrambleCall
    \/ \E m \in Draws : ScrambleTurn(m)
    \/ ScrambleReturn

ScrambleSpec == Init /\ [][ScrambleNext]_vars

-----------------------------------------------------------------------------
(* IDSolver::find_solution with dbsearch run step by step (SearchSpec).     *)
(* frames is the stack of the dbsearch calls in progress, the innermost     *)
(* last. A frame holds the locals of its call: maxdepth, the position i of  *)
(* m in possible_moves, moves, the clone s, where the call stands (pc) and  *)
(* what it returns (ret). start is a reference: that of the outermost call  *)
(* is to cube, that of any other call is to the s of its caller. entry      *)
(* records the cube start referred to when the call was made.               *)

\* the moves the scramble draws from under SearchSpec
SearchDraws == {"F", "R"}

\* *start of the k-th call on the stack
start_of(k) == IF k = 1 THEN cube ELSE frames[k - 1].s

\* the frame of dbsearch(start, maxdepth) on entry; s is not bound before
\* the first turn of the loop and shown as the cube start refers to
new_frame(start, maxdepth) ==
    [entry    |-> start,
     maxdepth |-> maxdepth,
     i        |-> 1,
     moves    |-> <<>>,
     s        |-> start,
     pc       |-> "loop",
     ret      |-> None]

Top == frames[Len(frames)]

SetTop(f) == [frames EXCEPT ![Len(frames)] = f]

\* if moves.len() > 0 { Some(moves) } else { None }
after_loop(moves) == IF Len(moves) > 0 THEN Some(moves) ELSE None

search_frame == <<cube, history, shortest, max_depth, result, call_vars,
                  lookup, solver, decomp>>

\* find_solution: the loop condition holds, dbsearch(cube, current_depth)
\* is called
Dbsearch_call ==
    /\ mode = "solve"
    /\ loop_condition
    /\ frames' = <<new_frame(cube, current_depth)>>
    /\ searched' = Append(searched, current_depth)
    /\ mode' = "search"
    /\ UNCHANGED <<search_frame, current_depth, current_solution>>

\* if maxdepth == 0 { return None; }
Dbsearch_base ==
    /\ mode = "search"
    /\ Top.pc = "loop"
    /\ Top.maxdepth = 0
    /\ frames' = SetTop([Top EXCEPT !.pc = "ret", !.ret = None])
    /\ UNCHANGED <<search_frame, mode, current_depth, current_solution,
                   searched>>

\* m is applied to the cube start refers to, not to a clone of it
Dbsearch_try_in_place ==
    /\ mode = "search"
    /\ Top.pc = "loop"
    /\ Top.maxdepth > 0
    /\ Top.i <= Len(possible_moves)
    /\ LET k == Len(frames)
           m == possible_moves[Top.i]
           s == apply_move(start_of(k), m)
           f == [Top EXCEPT !.s = s, !.moves = Append(Top.moves, m)]
           turned == IF k = 1 THEN SetTop(f)
                     ELSE [SetTop(f) EXCEPT ![k - 1].s = s]
       IN  /\ cube' = IF k = 1 THEN s ELSE cube
           /\ frames' =
                 IF is_solved(s)
                 THEN [turned EXCEPT ![k].pc = "ret",
                                     ![k].ret = after_loop(f.moves)]
                 ELSE Append([turned EXCEPT ![k].pc = "call"],
                             new_frame(s, Top.maxdepth - 1))
    /\ UNCHANGED <<history, shortest, max_depth, result, call_vars, lookup,
                   decomp, solver, mode, current_depth, current_solution, searched>>

\* one turn of for &m in &possible_moves up to its break or its call:
\* s = start.clone(); s.apply_move(m); moves.push(m); break if s is
\* solved, else call dbsearch(&s, maxdepth - 1)
Dbsearch_try ==
    /\ mode = "search"
    /\ Top.pc = "loop"
    /\ Top.maxdepth > 0
    /\ Top.i <= Len(possible_moves)
    /\ LET m == possible_moves[Top.i]
           s == apply_move(start_of(Len(frames)), m)
           f == [Top EXCEPT !.s = s, !.moves = Append(Top.moves, m)]
       IN  frames' =
             IF is_solved(s)
             THEN SetTop([f EXCEPT !.pc = "ret", !.ret = after_loop(f.moves)])
             ELSE Append(SetTop([f EXCEPT !.pc = "call"]),
                         new_frame(s, Top.maxdepth - 1))
    /\ UNCHANGED <<search_frame, mode, current_depth, current_solution,
                   searched>>

\* the loop has gone through possible_moves without a break
Dbsearch_exhausted ==
    /\ mode = "search"
    /\ Top.pc = "loop"
    /\ Top.maxdepth > 0
    /\ Top.i > Len(possible_moves)
    /\ frames' = SetTop([Top EXCEPT !.pc = "ret", !.ret = after_loop(Top.moves)])
    /\ UNCHANGED <<search_frame, mode, current_depth, current_solution,
                   searched>>

\* a call made by dbsearch returns to it: Some(ms) is appended to moves and
\* the loop breaks; on None the move is popped and the loop goes on
Dbsearch_return ==
    /\ mode = "search"
    /\ Len(frames) >= 2
    /\ Top.pc = "ret"
    /\ LET caller == frames[Len(frames) - 1]
           found  == caller.moves \o Top.ret.v
       IN  frames' =
             [Front(frames) EXCEPT ![Len(frames) - 1] =
                 IF Top.ret.is_some
                 THEN [caller EXCEPT !.moves = found,
                                     !.pc = "ret",
                                     !.ret = after_loop(found)]
                 ELSE [caller EXCEPT !.moves = Front(caller.moves),
                                     !.i = caller.i + 1,
                                     !.pc = "loop"]]
    /\ UNCHANGED <<search_frame, mode, current_depth, current_solution,
                   searched>>

\* current_depth is left as it is
Search_return_same_depth ==
    /\ mode = "search"
    /\ Len(frames) = 1
    /\ Top.pc = "ret"
    /\ current_solution' = Top.ret
    /\ frames' = <<>>
    /\ mode' = "solve"
    /\ UNCHANGED <<search_frame, current_depth, searched>>

\* the call made by find_solution returns to it:
\* current_solution = dbsearch(..); current_depth += 1. At 255 the
\* addition overflows: a debug build panics, a release build wraps to 0.
Search_return ==
    /\ mode = "search"
    /\ Len(frames) = 1
    /\ Top.pc = "ret"
    /\ current_solution' = Top.ret
    /\ frames' = <<>>
    /\ IF current_depth < U8_MAX
       THEN /\ current_depth' = current_depth + 1
            /\ mode' = "solve"
       ELSE \E build \in {"debug", "release"} :
            /\ current_depth' = IF build = "debug" THEN current_depth ELSE 0
            /\ mode' = IF build = "debug" THEN "panic" ELSE "solve"
    /\ UNCHANGED <<search_frame, searched>>

\* the steps of a call of find_solution in progress
SearchStep ==
    \/ Dbsearch_call
    \/ Dbsearch_base
    \/ Dbsearch_try
    \/ Dbsearch_exhausted
    \/ Dbsearch_return
    \/ Search_return
    \/ Return

SearchNext ==
    \/ \E m \in SearchDraws : Scramble(m)
    \/ \E d \in (0..MaxDepth) \cup {U8_MAX} : FindSolution(d)
    \/ FindSolutionDefault
    \/ SearchStep

SearchSpec == Init /\ [][SearchNext]_vars

\* find_solution is sequential code on one thread: once called, it goes on
\* taking its next step as long as it has one
SearchLiveSpec == SearchSpec /\ WF_vars(SearchStep)

-----------------------------------------------------------------------------
(* The face-lookup helpers called on their own (HelperSpec) *)

\* get_corner_face(cubicle, cubie, face, orientation): it has no panic
GetCornerFace(cubicle, cubie, face, orientation) ==
    /\ lookup.helper = "none"
    /\ lookup' = [helper      |-> "get_corner_face",
                  cubicle     |-> cubicle,
                  cubie       |-> cubie,
                  face        |-> face,
                  orientation |-> orientation,
                  outcome     |-> Ok(get_corner_face(cubicle, cubie, face,
                                                     orientation))]
    /\ UNCHANGED <<cube, history, mode, solver_vars, call_vars, solver, frames, decomp>>

\* get_edge_face(cubicle, cubie, face, orientation): it has no panic
GetEdgeFace(cubicle, cubie, face, orientation) ==
    /\ lookup.helper = "none"
    /\ lookup' = [helper      |-> "get_edge_face",
                  cubicle     |-> cubicle,
                  cubie       |-> cubie,
                  face        |-> face,
                  orientation |-> orientation,
                  outcome     |-> Ok(get_edge_face(cubicle, cubie, face,
                                                   orientation))]
    /\ UNCHANGED <<cube, history, mode, solver_vars, call_vars, solver, frames, decomp>>

HelperNext ==
    \/ \E cubicle, cubie \in Corners, face \in Range(Face),
          orientation \in 0..MaxOrientation :
            GetCornerFace(cubicle, cubie, face, orientation)
    \/ \E cubicle, cubie \in Edges, face \in Range(Face),
          orientation \in 0..MaxOrientation :
            GetEdgeFace(cubicle, cubie, face, orientation)

HelperSpec == Init /\ [][HelperNext]_vars

-----------------------------------------------------------------------------
(* Claims about the cube under Spec *)

IsBijection(map, ids) ==
    /\ DOMAIN map = ids
    /\ \A piece \in ids : Cardinality({pos \in ids : map[pos] = piece}) = 1

\* C1: in every state reached from Cube::new() by the 12 moves, sigma is a
\* bijection on the 8 corners and tau a bijection on the 12 edges: every
\* piece is the resident of exactly one position.
C1_PermutationsAreBijections ==
    /\ IsBijection(cube.sigma, Corners)
    /\ IsBijection(cube.tau, Edges)

\* a state where moves have displaced corners and edges
C1_Witness ==
    /\ Len(history) = MaxMoves
    /\ \E c \in Corners : cube.sigma[c] # c
    /\ \E e \in Edges : cube.tau[e] # e
    /\ cube.sigma["URF"] = "DLF"

\* C2: for each of the 12 moves m and every reachable cube, applying m four
\* times in a row gives back the same sigma, tau, x and y.
C2_FourTimesIsIdentity ==
    \A m \in Moves : apply_movelist(cube, <<m, m, m, m>>) = cube

\* the same move was applied four times and the cube is back where it started
C2_Witness ==
    /\ mode = "apply"
    /\ Len(history) = 4
    /\ \A i \in 1..4 : history[i] = history[1]
    /\ cube = Cube_new

\* C3: for every reachable cube and every face X, X then XPrime and XPrime
\* then X both give back exactly the same cube.
C3_MoveThenInverseIsIdentity ==
    \A m \in Moves : apply_move(apply_move(cube, m), inverse(m)) = cube

\* a move and then its inverse were applied to an unsolved cube, which is
\* now what it was before the two
C3_Witness ==
    /\ mode = "apply"
    /\ Len(history) = 3
    /\ history[3] = inverse(history[2])
    /\ ~ is_solved(cube)
    /\ cube = apply_move(Cube_new, history[1])

\* the sequences of test_move_and_unmove and test_permute_bottom_corners
FRUBLD == <<"F", "R", "U", "B", "L", "D">>

FRUBLD_undone == <<"DPrime", "LPrime", "BPrime", "UPrime", "RPrime", "FPrime">>

BottomCorners ==
    <<"RPrime", "U", "RPrime", "D", "D", "R", "UPrime", "RPrime", "D", "D", "R", "R">>

BottomCorners_undone ==
    <<"R", "R", "D", "D", "R", "U", "RPrime", "D", "D", "R", "UPrime", "R">>

\* C4: undoing moves by their inverses, last move first, restores the cube
\* that preceded them: while the caller unmoves, the cube is the one the
\* moves still standing produce from the new cube; a doubled move is its
\* own inverse; and the two sequences of the tests return the new cube to
\* the solved state.
C4_RoundTrip ==
    /\ mode = "unmove" => cube = apply_movelist(Cube_new, history)
    /\ \A m \in Moves :
          apply_movelist(cube, <<m, m>>) = apply_movelist(cube, <<inverse(m), inverse(m)>>)
    /\ is_solved(apply_movelist(apply_movelist(Cube_new, FRUBLD), FRUBLD_undone))
    /\ is_solved(apply_movelist(apply_movelist(Cube_new, BottomCorners),
                                BottomCorners_undone))

\* moves were undone from an unsolved cube back to another unsolved cube
C4_Witness ==
    /\ mode = "unmove"
    /\ Len(history) = 2
    /\ ~ is_solved(cube)
    /\ cube = apply_movelist(Cube_new, history)

\* C5: the new cube is solved, and the cube one move away from it is not,
\* for each of the 12 moves.
C5_NewSolvedOneMoveNot ==
    /\ history = <<>> /\ mode = "apply" => is_solved(cube)
    /\ \A m \in Moves : ~ is_solved(apply_move(Cube_new, m))
    /\ Len(history) = 1 /\ mode = "apply" => ~ is_solved(cube)

\* one move was applied to the new cube
C5_Witness ==
    /\ mode = "apply"
    /\ Len(history) = 1
    /\ cube = apply_move(Cube_new, history[1])
    /\ ~ is_solved(cube)

-----------------------------------------------------------------------------
(* Claims about IDSolver::find_solution under SolverSpec *)

\* C6: every non-empty sequence find_solution returns, applied move by move
\* to the input cube, leaves it solved.
C6_SolutionSolves ==
    mode = "done" /\ result # <<>> => is_solved(apply_movelist(cube, result))

\* a two-move solution was returned for a cube two moves from solved
C6_Witness ==
    /\ mode = "done"
    /\ Len(history) = 2
    /\ Len(result) = 2
    /\ ~ is_solved(apply_move(cube, result[1]))
    /\ is_solved(apply_movelist(cube, result))

\* C7: a returned sequence of length k > 0 has the smallest length d in
\* 1..max_depth for which some sequence of d moves solves the cube.
C7_SmallestDepth ==
    mode = "done" /\ result # <<>> =>
        /\ Len(result) \in 1..max_depth
        /\ Len(result) = shortest

\* a one-move solution was returned by a solver that may go deeper, for a
\* cube that sequences of three moves solve as well
C7_Witness ==
    /\ mode = "done"
    /\ max_depth = 3
    /\ Len(result) = 1
    /\ shortest = 1
    /\ \E m1, m2 \in Moves :
          is_solved(apply_movelist(cube, <<m1, m2, result[1]>>))

\* C8: for an unsolved cube that some sequence of at most max_depth moves
\* solves, find_solution returns a non-empty sequence.
C8_FindsSolutionWithinBound ==
    mode = "done" /\ shortest \in 1..max_depth => result # <<>>

\* the cube needs exactly max_depth = 2 moves and a solution was returned
C8_Witness ==
    /\ mode = "done"
    /\ shortest = 2
    /\ max_depth = 2
    /\ searched = <<1, 2>>
    /\ result # <<>>

\* C9: for an unsolved cube that no sequence of 1..max_depth moves solves
\* (max_depth = 0 included), find_solution comes to its end in the ordinary
\* way, having searched the depths 1..max_depth and no other, and returns
\* the empty list.
C9_NotFoundIsEmpty ==
    mode = "done" /\ ~ is_solved(cube) /\ shortest \notin 1..max_depth =>
        /\ result = <<>>
        /\ searched = [d \in 1..max_depth |-> d]

\* the solver searched depth 1, found nothing, and returned the empty list
C9_Witness ==
    /\ mode = "done"
    /\ ~ is_solved(cube)
    /\ shortest = 2
    /\ max_depth = 1
    /\ searched = <<1>>
    /\ result = <<>>

\* C10: for a solved input cube dbsearch is never invoked, whatever
\* max_depth is, and find_solution returns the empty sequence.
C10_SolvedInputNoSearch ==
    mode # "returned" /\ is_solved(cube) =>
        /\ searched = <<>>
        /\ mode = "done" => result = <<>>

\* a cube solved again by its scramble went through a solver of depth > 0
C10_Witness ==
    /\ mode = "done"
    /\ Len(history) = 2
    /\ is_solved(cube)
    /\ max_depth >= 2
    /\ searched = <<>>
    /\ result = <<>>

\* C11: for the new cube scrambled by exactly one move m, any of the 12,
\* and any max_depth >= 1, find_solution returns exactly one move, the
\* inverse of m, and the search at depth 1 is the only search it started.
C11_OneMoveScramble ==
    mode = "done" /\ Len(history) = 1 /\ max_depth >= 1 =>
        /\ result = <<inverse(history[1])>>
        /\ searched = <<1>>

\* a counter-clockwise scramble was solved by a solver that may go deeper
C11_Witness ==
    /\ mode = "done"
    /\ history = <<"DPrime">>
    /\ max_depth = MaxDepth
    /\ result = <<"D">>
    /\ searched = <<1>>

\* C12: the sequence find_solution returns never has more than max_depth
\* moves, max_depth being 26 after IDSolver::new() and d after
\* IDSolver::with_max_depth(d).
C12_DepthBound ==
    /\ mode \in {"solve", "done", "returned"} =>
          max_depth \in (0..MaxDepth) \cup {DefaultMaxDepth}
    /\ mode \in {"done", "returned"} => Len(result) <= max_depth

\* a solution exactly as long as max_depth allows was returned
C12_Witness ==
    /\ mode = "done"
    /\ max_depth = 2
    /\ Len(result) = 2

\* the cube handed to Cube::solve: Cube::new() with the scramble applied
solve_input == apply_movelist(Cube_new, history)

-----------------------------------------------------------------------------
(* Claims about Cube::get_face *)

Faces == Range(Face)

\* [face; 9]
uniform(face) == [i \in 1..9 |-> face]

\* C14: on a solved cube get_face(f) returns nine entries all equal to f,
\* for each of the six faces f.
C14_SolvedFaces ==
    is_solved(cube) => \A f \in Faces : get_face(cube, f) = uniform(f)

\* the cube is solved after a move was applied and undone
C14_Witness ==
    /\ mode = "unmove"
    /\ history = <<>>
    /\ is_solved(cube)
    /\ get_face(cube, "B") = uniform("B")

\* the grids asserted by test_move_f .. test_move_d, row-major, for the
\* faces F, R, U, B, L, D in this order
moved_faces(m) ==
    LET F == "F"  R == "R"  U == "U"  B == "B"  L == "L"  D == "D"
    IN  CASE m = "F" -> << uniform(F),
                           <<U,R,R,U,R,R,U,R,R>>,
                           <<U,U,U,U,U,U,L,L,L>>,
                           uniform(B),
                           <<L,L,D,L,L,D,L,L,D>>,
                           <<R,R,R,D,D,D,D,D,D>> >>
          [] m = "R" -> << <<F,F,D,F,F,D,F,F,D>>,
                           uniform(R),
                           <<U,U,F,U,U,F,U,U,F>>,
                           <<U,B,B,U,B,B,U,B,B>>,
                           uniform(L),
                           <<D,D,B,D,D,B,D,D,B>> >>
          [] m = "U" -> << <<R,R,R,F,F,F,F,F,F>>,
                           <<B,B,B,R,R,R,R,R,R>>,
                           uniform(U),
                           <<L,L,L,B,B,B,B,B,B>>,
                           <<F,F,F,L,L,L,L,L,L>>,
                           uniform(D) >>
          [] m = "B" -> << uniform(F),
                           <<R,R,D,R,R,D,R,R,D>>,
                           <<R,R,R,U,U,U,U,U,U>>,
                           uniform(B),
                           <<U,L,L,U,L,L,U,L,L>>,
                           <<D,D,D,D,D,D,L,L,L>> >>
          [] m = "L" -> << <<U,F,F,U,F,F,U,F,F>>,
                           uniform(R),
                           <<B,U,U,B,U,U,B,U,U>>,
                           <<B,B,D,B,B,D,B,B,D>>,
                           uniform(L),
                           <<F,D,D,F,D,D,F,D,D>> >>
          [] m = "D" -> << <<F,F,F,F,F,F,L,L,L>>,
                           <<R,R,R,R,R,R,F,F,F>>,
                           uniform(U),
                           <<B,B,B,B,B,B,R,R,R>>,
                           <<L,L,L,L,L,L,B,B,B>>,
                           uniform(D) >>

opposite(f) ==
    CASE f = "F" -> "B" [] f = "B" -> "F" [] f = "R" -> "L"
      [] f = "L" -> "R" [] f = "U" -> "D" [] f = "D" -> "U"

\* a row or a column of the 3 x 3 grid, as positions of the row-major list
Lines == {{1, 2, 3}, {7, 8, 9}, {1, 4, 7}, {3, 6, 9}}

\* grid shows f everywhere but on one row or column at the border, which
\* shows one and the same other face, neither X nor its opposite
one_line_of_neighbour(grid, f, X) ==
    \E line \in Lines : \E n \in Faces \ {f, X, opposite(X)} :
        \A i \in 1..9 : grid[i] = IF i \in line THEN n ELSE f

\* C15: after one clockwise move X on the solved cube, get_face returns for
\* all six faces exactly the grids of the tests: the turned face and its
\* opposite show their own colour, each of the four other faces shows its
\* own colour but for the three stickers of the row or column touching X,
\* which show the colour of a neighbouring face.
C15_OneMoveFaces ==
    mode = "apply" /\ Len(history) = 1 /\ history[1] \in Faces =>
        LET X == history[1]
        IN  \A i \in DOMAIN Face :
              LET f == Face[i]
              IN  /\ get_face(cube, f) = moved_faces(X)[i]
                  /\ f \in {X, opposite(X)} => get_face(cube, f) = uniform(f)
                  /\ f \notin {X, opposite(X)} =>
                        one_line_of_neighbour(get_face(cube, f), f, X)

\* F was applied: the left column of the R face shows U
C15_Witness ==
    /\ mode = "apply"
    /\ history = <<"F">>
    /\ get_face(cube, "R") = <<"U", "R", "R", "U", "R", "R", "U", "R", "R">>

\* C16: after the notation string R2U'FLB2, the moves R, R, UPrime, F, L,
\* B, B, applied to the solved cube, get_face returns the six grids of
\* test_moved_faces.
C16_MovedFaces ==
    mode = "apply" /\ notation = <<moved_faces_notation>> =>
        /\ history = <<"R", "R", "UPrime", "F", "L", "B", "B">>
        /\ get_face(cube, "U") = <<"U","D","B","B","U","U","R","L","B">>
        /\ get_face(cube, "R") = <<"U","F","U","U","R","L","U","R","L">>
        /\ get_face(cube, "F") = <<"D","F","L","U","F","L","L","B","L">>
        /\ get_face(cube, "D") = <<"F","R","F","F","D","U","D","D","B">>
        /\ get_face(cube, "L") = <<"R","L","F","R","L","B","B","D","D">>
        /\ get_face(cube, "B") = <<"R","B","F","D","B","F","D","R","R">>

\* R2U'FLB2 was applied: corners are twisted, edges flipped, both permuted
C16_Witness ==
    /\ mode = "apply"
    /\ notation = <<moved_faces_notation>>
    /\ Len(history) = 7
    /\ \E i \in 1..8 : cube.x[i] # 0
    /\ \E i \in 1..12 : cube.y[i] # 0
    /\ cube.sigma # CornerPermutation_default
    /\ cube.tau # EdgePermutation_default

-----------------------------------------------------------------------------
(* Claims about superflip and scramble *)

\* U R2 F B R B2 R U2 L B2 R U' D' R2 F R' L B2 U2 F2, move by move
superflip_sequence ==
    <<"U", "R", "R", "F", "B", "R", "B", "B", "R", "U", "U", "L", "B", "B",
      "R", "UPrime", "DPrime", "R", "R", "F", "RPrime", "L", "B", "B",
      "U", "U", "F", "F">>

\* every cubie at home, no corner twisted, every edge flipped
superflip_state ==
    [sigma |-> CornerPermutation_default,
     tau   |-> EdgePermutation_default,
     x     |-> [i \in 1..8 |-> 0],
     y     |-> [i \in 1..12 |-> 1]]

\* C19: superflip(&c) returns c with the sequence U R2 F B R B2 R U2 L B2
\* R U' D' R2 F R' L B2 U2 F2 applied and leaves c as it was; for a solved
\* c the cube returned has every corner and edge at home, every corner
\* orientation 0 and every edge orientation 1, and is not solved.
C19_Superflip ==
    mode = "superflip" =>
        /\ superc = apply_movelist(cube, superflip_sequence)
        /\ cube = apply_movelist(Cube_new, history)
        /\ is_solved(cube) =>
              /\ superc = superflip_state
              /\ ~ is_solved(superc)

\* superflip was called on the new cube
C19_Witness ==
    /\ mode = "superflip"
    /\ notation = <<>>
    /\ is_solved(cube)
    /\ superc.y = [i \in 1..12 |-> 1]

\* C20: after scramble(20) on a new cube is_solved() is false, whichever
\* 20 moves the random source draws.
C20_ScrambledNotSolved ==
    mode = "scrambled" => ~ is_solved(cube)

-----------------------------------------------------------------------------
(* Claims about the orientation vectors and the totality of apply_move *)

\* C17: in every reachable state each of the 8 corner orientations is in
\* {0, 1, 2} and each of the 12 edge orientations is in {0, 1}; in the
\* solved state all of them are 0.
C17_OrientationRange ==
    /\ DOMAIN cube.x = 1..8
    /\ DOMAIN cube.y = 1..12
    /\ \A i \in 1..8 : cube.x[i] \in {0, 1, 2}
    /\ \A i \in 1..12 : cube.y[i] \in {0, 1}
    /\ is_solved(cube) =>
          /\ \A i \in 1..8 : cube.x[i] = 0
          /\ \A i \in 1..12 : cube.y[i] = 0

\* a corner twisted twice and a flipped edge
C17_Witness ==
    /\ \E i \in 1..8 : cube.x[i] = 2
    /\ \E i \in 1..12 : cube.y[i] = 1
    /\ Len(history) = 2

\* C18: apply_move is total: in every reachable state each of the 12 moves
\* completes; the panic arms of swap_x and swap_y and the unwrap() of a
\* missing key in permute and get are never reached.
C18_ApplyMoveTotal ==
    /\ \A m \in Moves : ~ apply_move_panics(cube, m)
    /\ \A corner \in Corners : ~ get_panics(cube.sigma, corner)
    /\ \A edge \in Edges : ~ get_panics(cube.tau, edge)

\* three moves have completed and every one of the 12 can follow
C18_Witness ==
    /\ mode = "apply"
    /\ history = <<"F", "RPrime", "D">>
    /\ \A m \in Moves : ~ apply_move_panics(cube, m)
    /\ cube = apply_movelist(Cube_new, history)

-----------------------------------------------------------------------------
(* Claims about the notation of apply_moves *)

\* the characters apply_moves allows
allowed_characters == face_letters \cup prime_marks \cup {"2"}

\* a string read as a sequence of X, X2 and X', X a face letter: the moves
\* it stands for (X once, X twice, XPrime once), ok unless some character
\* cannot be read so
RECURSIVE translate(_)
translate(s) ==
    IF s = <<>> THEN [ok |-> TRUE, v |-> <<>>]
    ELSE IF Head(s) \notin face_letters THEN [ok |-> FALSE, v |-> <<>>]
    ELSE LET X     == Head(s)
             mark  == IF Len(s) >= 2 THEN s[2] ELSE "none"
             these == IF mark = "2" THEN <<X, X>>
                      ELSE IF mark \in prime_marks THEN <<inverse(X)>>
                      ELSE <<X>>
             rest  == translate(SubSeq(s,
                          IF mark = "2" \/ mark \in prime_marks THEN 3 ELSE 2,
                          Len(s)))
         IN  [ok |-> rest.ok, v |-> these \o rest.v]

\* the moves the first n strings of notation stand for, in order
RECURSIVE translated(_)
translated(n) ==
    IF n = 0 THEN <<>>
    ELSE translated(n - 1) \o translate(notation[n]).v

\* C21: apply_moves applies X once for a face letter X, X twice for X2 and
\* XPrime once for X followed by a prime mark, left to right, only moves of
\* the 12; a character outside FRUBLD, the prime marks and 2 is an error.
C21_NotationTranslation ==
    mode \in {"apply", "panic"} /\ notation # <<>> =>
        LET moves == Last(notation)
        IN  /\ (\E i \in DOMAIN moves : moves[i] \notin allowed_characters)
                   => mode = "panic"
            /\ translate(moves).ok =>
                   /\ mode = "apply"
                   /\ history = translated(Len(notation))
                   /\ \A i \in DOMAIN history : history[i] \in Moves
                   /\ cube = apply_movelist(Cube_new, history)

\* FUR and R'U'F' were applied
C21_Witness ==
    /\ mode = "apply"
    /\ notation = <<scramble_a_little, undo_the_moves>>
    /\ history = <<"F", "U", "R", "RPrime", "UPrime", "FPrime">>
    /\ is_solved(cube)

\* C22: when apply_moves signals an error, wherever the offending character
\* sits in the string, no move of the string has been applied: the cube is
\* as it was before the call.
C22_ErrorAppliesNothing ==
    mode = "panic" =>
        /\ history = translated(Len(notation) - 1)
        /\ cube = apply_movelist(Cube_new, history)

\* the offending character is the last of three: two moves were parsed
C22_Witness ==
    /\ mode = "panic"
    /\ notation = << <<"F", "R", "X">> >>
    /\ parsed_prefix(Last(notation), 1, <<>>, "X") = <<"F", "R">>
    /\ cube = Cube_new

-----------------------------------------------------------------------------
(* disjoint_cycle_decompose, run step by step (CycleSpec). decomp holds the *)
(* locals of the call: map, the values in the order map.values() yields     *)
(* them, the position k of v in that order, cycles, current_cycle,          *)
(* used_values, current_value, and where the call stands (pc).              *)

\* the first n identifiers of enum Corner
Ids(n) == {Corner[i] : i \in 1..n}

\* the bijective mappings of S
Bijections(S) == {map \in [S -> S] : \A a, b \in S : map[a] = map[b] => a = b}

\* the orders in which a HashMap may hold the keys S
Orders(S) ==
    {keys \in [1..Cardinality(S) -> S] :
        \A i, j \in 1..Cardinality(S) : keys[i] = keys[j] => i = j}

\* map.values() of a map that holds its keys in the order keys
values_in(map, keys) == [i \in DOMAIN keys |-> map[keys[i]]]

reverse(seq) == [i \in 1..Len(seq) |-> seq[Len(seq) + 1 - i]]

\* Vec::contains
contains(vec, e) == \E i \in DOMAIN vec : vec[i] = e

\* cycles.sort_by_key(|k| k.len()): the sort is stable, so cycle i comes
\* behind the shorter cycles and the cycles of its length that were before it
sort_by_key_len(cycles) ==
    LET place(i) ==
            Cardinality({j \in DOMAIN cycles :
                            \/ Len(cycles[j]) < Len(cycles[i])
                            \/ Len(cycles[j]) = Len(cycles[i]) /\ j <= i})
    IN  [r \in 1..Len(cycles) |->
            cycles[CHOOSE i \in DOMAIN cycles : place(i) = r]]

\* disjoint_cycle_decompose(map) is called, map holding its keys in the
\* order keys
Decompose(map, keys) ==
    /\ mode = "apply"
    /\ decomp.pc = "idle"
    /\ decomp' = [pc            |-> "for",
                  map           |-> map,
                  values        |-> values_in(map, keys),
                  k             |-> 1,
                  cycles        |-> <<>>,
                  current_cycle |-> <<>>,
                  used_values   |-> <<>>,
                  current_value |-> "unset"]
    /\ mode' = "decompose"
    /\ UNCHANGED <<cube, history, solver_vars, call_vars, lookup, solver, frames>>

\* fmt::Debug for CornerPermutation
CornerPermutation_fmt(keys) == Decompose(cube.sigma, keys)

\* fmt::Debug for EdgePermutation
EdgePermutation_fmt(keys) == Decompose(cube.tau, keys)

decomp_frame == <<cube, history, mode, solver_vars, call_vars, lookup, solver, frames>>

\* if used_values.contains(&v) { continue; }
For_continue ==
    /\ decomp.pc = "for"
    /\ decomp.k <= Len(decomp.values)
    /\ contains(decomp.used_values, decomp.values[decomp.k])
    /\ decomp' = [decomp EXCEPT !.k = decomp.k + 1]
    /\ UNCHANGED decomp_frame

\* current_cycle.push(v); let mut current_value = v;
For_enter ==
    /\ decomp.pc = "for"
    /\ decomp.k <= Len(decomp.values)
    /\ ~contains(decomp.used_values, decomp.values[decomp.k])
    /\ decomp' = [decomp EXCEPT !.current_cycle = Append(decomp.current_cycle,
                                                         decomp.values[decomp.k]),
                                !.current_value = decomp.values[decomp.k],
                                !.pc = "loop"]
    /\ UNCHANGED decomp_frame

\* the condition of the if in the loop
closes(d) ==
    IF Len(d.current_cycle) > 1 /\ d.current_cycle[1] = d.current_value
    THEN TRUE
    ELSE contains(d.used_values, d.current_value)

\* the cycle is pushed with the value that closed it still at its end
Loop_close_no_pop ==
    /\ decomp.pc = "loop"
    /\ closes(decomp)
    /\ decomp' = [decomp EXCEPT !.cycles = Append(decomp.cycles, decomp.current_cycle),
                                !.current_cycle = <<>>,
                                !.k = decomp.k + 1,
                                !.pc = "for"]
    /\ UNCHANGED decomp_frame

\* current_cycle.pop(); cycles.push(current_cycle.clone());
\* current_cycle = Vec::new(); break;
Loop_close ==
    /\ decomp.pc = "loop"
    /\ closes(decomp)
    /\ decomp' = [decomp EXCEPT !.cycles = Append(decomp.cycles,
                                                  Front(decomp.current_cycle)),
                                !.current_cycle = <<>>,
                                !.k = decomp.k + 1,
                                !.pc = "for"]
    /\ UNCHANGED decomp_frame

\* used_values.push(current_value);
\* current_value = *(map.get(&current_value).unwrap());
\* current_cycle.push(current_value); unwrap panics on a value that is no key
Loop_follow ==
    /\ decomp.pc = "loop"
    /\ ~closes(decomp)
    /\ decomp' =
         IF contains_key(decomp.map, decomp.current_value)
         THEN [decomp EXCEPT !.used_values = Append(decomp.used_values,
                                                    decomp.current_value),
                             !.current_value = decomp.map[decomp.current_value],
                             !.current_cycle = Append(decomp.current_cycle,
                                                      decomp.map[decomp.current_value])]
         ELSE [decomp EXCEPT !.used_values = Append(decomp.used_values,
                                                    decomp.current_value),
                             !.pc = "panic"]
    /\ UNCHANGED decomp_frame

\* cycles.sort_by_key(|k| k.len()); cycles.reverse(); cycles
Sort_return ==
    /\ decomp.pc = "for"
    /\ decomp.k > Len(decomp.values)
    /\ decomp' = [decomp EXCEPT !.cycles = reverse(sort_by_key_len(decomp.cycles)),
                                !.pc = "returned"]
    /\ UNCHANGED decomp_frame

\* the steps of a call of disjoint_cycle_decompose in progress
CycleStep ==
    \/ For_continue
    \/ For_enter
    \/ Loop_close
    \/ Loop_follow
    \/ Sort_return

CycleNext ==
    \/ \E m \in SearchDraws : Scramble(m)
    \/ \E n \in 0..MaxIds : \E map \in Bijections(Ids(n)) :
          \E keys \in Orders(Ids(n)) : Decompose(map, keys)
    \/ \E keys \in {Corner, reverse(Corner)} : CornerPermutation_fmt(keys)
    \/ \E keys \in {Edge, reverse(Edge)} : EdgePermutation_fmt(keys)
    \/ CycleStep

\* disjoint_cycle_decompose is sequential code on one thread: once called,
\* it goes on taking its next step as long as it has one
CycleSpec == Init /\ [][CycleNext]_vars /\ WF_vars(CycleStep)

-----------------------------------------------------------------------------
(* Claims about the face-lookup helpers *)

\* C23: an orientation outside {0, 1, 2} given to get_corner_face, or
\* outside {0, 1} given to get_edge_face, ends in a panic; no colour is
\* returned for it.
C23_InvalidOrientationPanics ==
    lookup.helper # "none" =>
        LET valid == IF lookup.helper = "get_corner_face" THEN {0, 1, 2}
                     ELSE {0, 1}
        IN  lookup.orientation \notin valid => lookup.outcome.panicked

-----------------------------------------------------------------------------
(* Claims about NullSolver *)

\* C24: NullSolver::find_solution returns the empty list for every cube,
\* and Cube::solve with a NullSolver returns the empty list and leaves the
\* cube as it was, solved or not.
C24_NullSolver ==
    solver = "NullSolver" =>
        /\ mode \in {"done", "returned"}
        /\ result = <<>>
        /\ searched = <<>>
        /\ cube = solve_input

\* Cube::solve with a NullSolver has returned for a cube that is not solved
C24_Witness ==
    /\ solver = "NullSolver"
    /\ mode = "returned"
    /\ Len(history) = 2
    /\ ~ is_solved(cube)
    /\ result = <<>>

-----------------------------------------------------------------------------
(* Claims about one apply_move, checked in every state reached under Spec *)

\* the position after p in a 4-cycle given as positions 1..4
succ4(i) == (i % 4) + 1

\* C25: apply_move is computed from the state before the move: for the
\* 4-cycle (p0, p1, p2, p3) of the move new[p((i+1) mod 4)] = old[p(i)]
\* for all four i, and orientation slot i becomes
\* (old[swap_indices[i]] + addends[i]) mod m, m = 3 for corners and 2 for
\* edges; nothing is read from an entry the same move has overwritten.
C25_Snapshot ==
    \A m \in Moves :
        LET new == apply_move(cube, m)
            p   == corner_cycle(m)
            e   == edge_cycle(m)
            xt  == x_tables(m)
            yt  == y_tables(m)
        IN  /\ \A i \in 1..4 : new.sigma[p[succ4(i)]] = cube.sigma[p[i]]
            /\ \A i \in 1..4 : new.tau[e[succ4(i)]] = cube.tau[e[i]]
            /\ \A i \in 1..8 :
                  new.x[i] = (cube.x[xt[1][i] + 1] + xt[2][i]) % 3
            /\ \A i \in 1..12 :
                  new.y[i] = (cube.y[yt[1][i] + 1] + yt[2][i]) % 2

\* a state in which updating in place would give another cube: the corners
\* of the F face hold four different cubies with different orientations
C25_Witness ==
    /\ Len(history) = 2
    /\ permute_cycle_in_place(cube.sigma, corner_cycle("F"))
          # apply_move(cube, "F").sigma
    /\ swap_x_in_place(cube.x, x_tables("F")[1])
          # swap_x(cube.x, x_tables("F")[1])

\* the face a move turns: X for X and for XPrime
turned_face(m) ==
    CASE m \in {"F", "FPrime"} -> "F"
      [] m \in {"R", "RPrime"} -> "R"
      [] m \in {"U", "UPrime"} -> "U"
      [] m \in {"B", "BPrime"} -> "B"
      [] m \in {"L", "LPrime"} -> "L"
      [] m \in {"D", "DPrime"} -> "D"

\* the positions whose name contains the face X
corners_of(X) == {c \in Corners : X \in Range(decompose_corner(c))}

edges_of(X) == {e \in Edges : X \in Range(decompose_edge(e))}

\* the residents of the positions A are moved along one cycle through all
\* four of them: from(p) is the position the new resident of p came from
single_4_cycle(old, new, A) ==
    /\ Cardinality(A) = 4
    /\ \A p \in A : \E q \in A : new[p] = old[q]
    /\ LET from(p) == CHOOSE q \in A : new[p] = old[q]
       IN  \A p \in A : /\ from(p) # p
                        /\ from(from(p)) # p
                        /\ from(from(from(from(p)))) = p

\* C26: a turn of face X changes the resident and the orientation value of
\* no position but the 4 corner and 4 edge positions whose name contains X;
\* each of these receives another resident than it had, along a single
\* 4-cycle of corners and a single 4-cycle of edges.
C26_Frame ==
    \A m \in Moves :
        LET new == apply_move(cube, m)
            X   == turned_face(m)
        IN  /\ \A c \in Corners \ corners_of(X) :
                  /\ new.sigma[c] = cube.sigma[c]
                  /\ get_corner_orientation(new, c)
                        = get_corner_orientation(cube, c)
            /\ \A e \in Edges \ edges_of(X) :
                  /\ new.tau[e] = cube.tau[e]
                  /\ get_edge_orientation(new, e)
                        = get_edge_orientation(cube, e)
            /\ \A c \in corners_of(X) : new.sigma[c] # cube.sigma[c]
            /\ \A e \in edges_of(X) : new.tau[e] # cube.tau[e]
            /\ single_4_cycle(cube.sigma, new.sigma, corners_of(X))
            /\ single_4_cycle(cube.tau, new.tau, edges_of(X))

\* three moves were applied; the next turn of R leaves the L face alone
C26_Witness ==
    /\ history = <<"U", "LPrime", "B">>
    /\ \A c \in corners_of("L") \ corners_of("R") :
          apply_move(cube, "R").sigma[c] = cube.sigma[c]
    /\ apply_move(cube, "R") # cube

\* seq is a permutation of 0 .. Len(seq) - 1
is_permutation(seq) ==
    Range(seq) = 0..(Len(seq) - 1)

\* C27: for each of the 12 moves the swap_indices arrays are permutations
\* of all slot indices and, under the slot numbering of
\* get_corner_orientation and get_edge_orientation, relocate slot contents
\* as the 4-cycle of the move relocates pieces: when the piece at position
\* p after the move came from position q, orientation'[p] =
\* (orientation[q] + addends[p]) mod m.
C27_TablesAgree ==
    \A m \in Moves :
        LET new == apply_move(cube, m)
            xt  == x_tables(m)
            yt  == y_tables(m)
        IN  /\ is_permutation(xt[1]) /\ Len(xt[1]) = 8 /\ Len(xt[2]) = 8
            /\ is_permutation(yt[1]) /\ Len(yt[1]) = 12 /\ Len(yt[2]) = 12
            /\ \A p \in Corners :
                  LET q  == CHOOSE q \in Corners : cube.sigma[q] = new.sigma[p]
                      ip == index_of(Corner, p)
                      iq == index_of(Corner, q)
                  IN  /\ xt[1][ip] = iq - 1
                      /\ get_corner_orientation(new, p)
                           = (get_corner_orientation(cube, q) + xt[2][ip]) % 3
            /\ \A p \in Edges :
                  LET q  == CHOOSE q \in Edges : cube.tau[q] = new.tau[p]
                      ip == index_of(Edge, p)
                      iq == index_of(Edge, q)
                  IN  /\ yt[1][ip] = iq - 1
                      /\ get_edge_orientation(new, p)
                           = (get_edge_orientation(cube, q) + yt[2][ip]) % 2

\* twisted corners and flipped edges are about to travel with a turn of B
C27_Witness ==
    /\ history = <<"F", "U", "U">>
    /\ \E p \in corners_of("B") : get_corner_orientation(cube, p) # 0
    /\ \E p \in edges_of("B") : get_edge_orientation(cube, p) # 0
    /\ apply_move(cube, "B").x # cube.x

-----------------------------------------------------------------------------
(* The claims about the search, step by step (SearchSpec) *)

\* C28: the branches of the search share no mutated state. The cube every
\* call on the stack was given is still the cube it was given when the call
\* was made, up to and including its return; the cube a call hands to the
\* call it makes is the clone s, which is the cube it was given with the
\* move being tried applied, whichever moves were tried before; and from
\* the call of find_solution to its return, with or without a solution,
\* the cube passed to it is the cube it was called with.
C28_NoSharedState ==
    /\ mode \in {"solve", "search", "done"} => cube = solve_input
    /\ \A k \in DOMAIN frames : start_of(k) = frames[k].entry
    /\ \A k \in 1..(Len(frames) - 1) :
          /\ frames[k].pc = "call"
          /\ frames[k].s = apply_move(frames[k].entry, possible_moves[frames[k].i])
          /\ frames[k + 1].entry = frames[k].s

\* a call two levels down returns to a caller that has tried a move before
\* and found nothing
C28_Witness ==
    /\ mode = "search"
    /\ Len(frames) = 2
    /\ frames[1].i > 1
    /\ frames[2].pc = "ret"
    /\ frames[2].ret.is_some
    /\ cube = solve_input

\* the order of the moves the claim names
MoveOrder ==
    <<"F", "R", "U", "B", "L", "D",
      "FPrime", "RPrime", "UPrime", "BPrime", "LPrime", "DPrime">>

\* a = b, or a comes before b in the lexicographic order of MoveOrder
lex_leq(a, b) ==
    \/ a = b
    \/ \E j \in DOMAIN a :
          /\ \A h \in 1..(j - 1) : a[h] = b[h]
          /\ index_of(MoveOrder, a[j]) < index_of(MoveOrder, b[j])

\* the sequences of n moves that solve c
solving(c, n) ==
    {seq \in [1..n -> Moves] : is_solved(apply_movelist(c, seq))}

\* C29: every call of the search tries the moves in the order F, R, U, B,
\* L, D, FPrime, RPrime, UPrime, BPrime, LPrime, DPrime: the move it is at
\* is the i-th of that order, moves holds that move alone while the call
\* below it runs, and nothing once the move was tried in vain. The sequence
\* find_solution returns is therefore a function of the cube: it solves the
\* cube, no shorter sequence does, and it is the first in lexicographic
\* order among the solving sequences of its length.
C29_FirstInOrder ==
    /\ \A k \in DOMAIN frames :
          /\ frames[k].i \in 1..(Len(MoveOrder) + 1)
          /\ frames[k].pc = "loop" => frames[k].moves = <<>>
          /\ frames[k].pc = "call" => frames[k].moves = <<MoveOrder[frames[k].i]>>
          /\ frames[k].pc = "ret" /\ frames[k].ret.is_some
                => frames[k].moves[1] = MoveOrder[frames[k].i]
    /\ mode = "done" /\ current_solution.is_some
          => /\ result \in solving(cube, Len(result))
             /\ \A n \in 0..(Len(result) - 1) : solving(cube, n) = {}
             /\ \A seq \in solving(cube, Len(result)) : lex_leq(result, seq)

\* F F is undone by F F and by FPrime FPrime: F F is returned
C29_Witness ==
    /\ mode = "done"
    /\ history = <<"F", "F">>
    /\ result = <<"F", "F">>
    /\ <<"FPrime", "FPrime">> \in solving(cube, 2)


\* the depths searched are 1, 2, 3, ... with none above max_depth and none
\* twice, the u8 counter stands one above the last depth searched, no
\* search runs once a solution is there, and the k-th call on the stack
\* has k - 1 levels less to go than the call made by find_solution
C30_Depths ==
    /\ searched = [j \in 1..Len(searched) |-> j]
    /\ \A j \in DOMAIN searched : searched[j] <= max_depth
    /\ current_depth \in 0..U8_MAX
    /\ mode \in {"solve", "done"} => current_depth = Len(searched) + 1
    /\ mode = "search" => current_depth = Len(searched)
    /\ mode = "search" => ~current_solution.is_some
    /\ mode # "panic"
    /\ \A k \in DOMAIN frames :
          /\ frames[k].maxdepth = current_depth - (k - 1)
          /\ frames[k].maxdepth >= 0

\* C30: find_solution terminates: every call of it comes to its return.
\* On the way it searches the depths 1, 2, 3, ... in this order, none
\* above max_depth and none twice, it stops after the first depth that
\* yields a solution, current_depth never overflows, and a call
\* dbsearch(start, maxdepth) has at most maxdepth calls nested in it.
C30_Terminates ==
    /\ []C30_Depths
    /\ (mode = "solve") ~> (mode = "done")

\* with max_depth 255 the depths 1 and 2 were searched and the call is over
C30_Witness ==
    /\ mode = "done"
    /\ max_depth = U8_MAX
    /\ searched = <<1, 2>>
    /\ current_depth = Len(searched) + 1
    /\ Len(result) = Len(searched)


-----------------------------------------------------------------------------
(* Conservation laws of the cube (Spec) *)

RECURSIVE sum(_)
sum(values) == IF values = <<>> THEN 0 ELSE Head(values) + sum(Tail(values))

\* C31: in every reachable state the 8 corner orientations add up to a
\* multiple of 3 and the 12 edge orientations to a multiple of 2; a cube
\* with one corner twisted alone or one edge flipped alone is never reached.
C31_OrientationSums ==
    /\ sum(cube.x) % 3 = 0
    /\ sum(cube.y) % 2 = 0
    /\ \A i \in DOMAIN cube.x : cube.x # [X_default EXCEPT ![i] = cube.x[i]] \/ cube.x[i] = 0
    /\ \A j \in DOMAIN cube.y : cube.y # [Y_default EXCEPT ![j] = cube.y[j]] \/ cube.y[j] = 0

\* three moves have left corners twisted both ways and edges flipped
C31_Witness ==
    /\ Len(history) = 3
    /\ \E i \in DOMAIN cube.x : cube.x[i] = 1
    /\ \E i \in DOMAIN cube.x : cube.x[i] = 2
    /\ \E j \in DOMAIN cube.y : cube.y[j] = 1


\* the parity of the mapping map over the identifiers ids, taken in the
\* order of their enum: the number of pairs it puts out of order, modulo 2
parity(map, ids) ==
    Cardinality({p \in (DOMAIN ids) \X (DOMAIN ids) :
                    /\ p[1] < p[2]
                    /\ index_of(ids, map[ids[p[1]]]) > index_of(ids, map[ids[p[2]]])}) % 2

\* the number of move operators applied to the solved cube so far: those
\* of the scramble and, once solve has run, those of the solution
moves_applied ==
    Len(history) + (IF mode = "returned" THEN Len(result) ELSE 0)

\* C32: after n move operators on the solved cube the corner permutation
\* and the edge permutation both have the parity of n; so the cube is not
\* solved after an odd number of moves, and a solution the solver returns
\* has a length of the parity of the scramble.
C32_Parity ==
    /\ parity(cube.sigma, Corner) = moves_applied % 2
    /\ parity(cube.tau, Edge) = moves_applied % 2
    /\ is_solved(cube) => moves_applied % 2 = 0
    /\ mode = "done" /\ current_solution.is_some
          => Len(result) % 2 = Len(history) % 2

\* a scramble of one move, both permutations odd, and a solution of one move
C32_Witness ==
    /\ mode = "done"
    /\ Len(history) = 1
    /\ Len(result) = 1
    /\ parity(cube.sigma, Corner) = 1
    /\ parity(cube.tau, Edge) = 1


-----------------------------------------------------------------------------
(* The two versions of the cube side by side (NotationSpec) *)

\* the cube of cube.rs after the first n calls of apply_moves recorded in
\* notation, from Cube::new(); a call that panics ends the run
RECURSIVE cube_rs_run(_)
cube_rs_run(n) ==
    IF n = 0 THEN Ok(Cube_new)
    ELSE LET before == cube_rs_run(n - 1)
         IN  IF before.panicked THEN before
             ELSE cube_rs_apply_moves(before.v, notation[n])

\* C33: in every reachable state and for every face X, XPrime applied once
\* gives the cube that X applied three times gives. So the apply_moves of
\* cube.rs (six moves, a prime mark adds the turn two more times) and the
\* apply_moves of cube/mod.rs (twelve moves, a prime mark puts XPrime for
\* X) panic on the same strings and, given the same strings, leave equal
\* cubes with equal get_face results on all six faces.
C33_SixMoveVersion ==
    /\ \A X \in Range(cube_rs_Move) :
          apply_move(cube, inverse(X)) = apply_movelist(cube, <<X, X, X>>)
    /\ LET legacy == cube_rs_run(Len(notation))
       IN  /\ legacy.panicked <=> mode = "panic"
           /\ legacy.v = cube
           /\ \A f \in Range(Face) : cube_rs_get_face(legacy.v, f) = get_face(cube, f)

\* U'R went through both versions: UPrime R in one, U U U R in the other
C33_Witness ==
    /\ notation = << <<"U", "'", "R">> >>
    /\ history = <<"UPrime", "R">>
    /\ cube_rs_run(Len(notation)).v = cube_rs_apply_movelist(Cube_new, <<"U", "U", "U", "R">>)
    /\ cube = cube_rs_run(Len(notation)).v


-----------------------------------------------------------------------------
(* Opposite faces (Spec) *)

\* the pairs of opposite faces
OppositePairs == {<<"F", "B">>, <<"U", "D">>, <<"L", "R">>}

\* the two senses of a turn of face X
senses(X) == {X, inverse(X)}

\* C34: turns of opposite faces commute. For each of the pairs (F,B),
\* (U,D), (L,R), either sense of the one and either sense of the other,
\* the two moves applied to a reachable cube in one order give the cube
\* they give in the other order.
C34_OppositeCommute ==
    \A p \in OppositePairs : \A a \in senses(p[1]) : \A b \in senses(p[2]) :
        apply_move(apply_move(cube, a), b) = apply_move(apply_move(cube, b), a)

\* R, then U and DPrime: the cube is the one R, DPrime, U gives
C34_Witness ==
    /\ history = <<"R", "U", "DPrime">>
    /\ cube = apply_movelist(Cube_new, <<"R", "DPrime", "U">>)
    /\ cube # apply_movelist(Cube_new, <<"U", "DPrime", "R">>)


-----------------------------------------------------------------------------
(* The faces shown and the state behind them (Spec) *)

\* every face shows its own colour in all nine places
looks_solved(c) == \A f \in Range(Face) : get_face(c, f) = uniform(f)

\* C35: the faces agree with is_solved. In every reachable state is_solved
\* is true exactly when get_face(f) is nine times f for each of the six
\* faces: no unsolved cube looks solved, and no solved cube shows a colour
\* foreign to a face.
C35_FacesAgreeWithSolved ==
    is_solved(cube) <=> looks_solved(cube)

\* four turns of one face: solved again, and it looks solved
C35_Witness ==
    /\ Len(history) = 4
    /\ is_solved(cube)
    /\ looks_solved(cube)
    /\ ~looks_solved(apply_move(cube, history[1]))


\* where get_face puts corner_faces[0..3] and edge_faces[0..3] in the nine
\* entries it returns (entry 0 of the source is entry 1 here)
corner_entry == <<1, 3, 9, 7>>

edge_entry == <<2, 6, 8, 4>>

\* the entry of the centre
centre_entry == 5

\* the six get_face results of c, by face
faces_of(c) ==
    LET grids == <<get_face(c, "F"), get_face(c, "R"), get_face(c, "U"),
                   get_face(c, "B"), get_face(c, "L"), get_face(c, "D")>>
    IN  [F |-> grids[1], R |-> grids[2], U |-> grids[3],
         B |-> grids[4], L |-> grids[5], D |-> grids[6]]

\* the colour face f shows at the corner cubicle, the edge cubicle
shown_at_corner(grids, f, cubicle) ==
    grids[f][corner_entry[index_of(face_corners(f), cubicle)]]

shown_at_edge(grids, f, cubicle) ==
    grids[f][edge_entry[index_of(face_edges(f), cubicle)]]

\* how often colour k is among the 54 entries of the six faces
shown(grids, k) ==
    Cardinality({p \in Range(Face) \X (1..9) : grids[p[1]][p[2]] = k})

\* C36: stickers are conserved. In every reachable state the centre entry
\* of get_face(f) is f; each of the six colours is shown 9 times among the
\* 54 entries of the six faces; at each corner cubicle the three faces that
\* meet there show the three colours of the cubie in it, and at each edge
\* cubicle the two faces show the two colours of the cubie in it.
C36_StickerConservation ==
    LET grids == faces_of(cube)
    IN  /\ \A f \in Range(Face) : grids[f][centre_entry] = f
        /\ \A k \in Range(Face) : shown(grids, k) = 9
        /\ \A cubicle \in Corners :
              /\ Cardinality(Range(decompose_corner(cubicle))) = 3
              /\ {shown_at_corner(grids, f, cubicle) : f \in Range(decompose_corner(cubicle))}
                    = Range(decompose_corner(cube.sigma[cubicle]))
        /\ \A cubicle \in Edges :
              /\ Cardinality(Range(decompose_edge(cubicle))) = 2
              /\ {shown_at_edge(grids, f, cubicle) : f \in Range(decompose_edge(cubicle))}
                    = Range(decompose_edge(cube.tau[cubicle]))

\* after F R U the cubicle URF holds another cubie, twisted, and the edge
\* cubicle UF a flipped one
C36_Witness ==
    /\ history = <<"F", "R", "U">>
    /\ cube.sigma["URF"] # "URF"
    /\ get_corner_orientation(cube, "URF") # 0
    /\ \E e \in Edges : get_edge_orientation(cube, e) # 0 /\ cube.tau[e] # e
    /\ shown_at_corner(faces_of(cube), "U", "URF") # "U"


-----------------------------------------------------------------------------
(* Modifiers out of place (NotationSpec) *)

\* '2' and the three prime marks
modifiers == {"2"} \cup prime_marks

\* s has a modifier that no face letter stands immediately before
misplaced_modifier(s) ==
    \E i \in DOMAIN s :
        /\ s[i] \in modifiers
        /\ IF i = 1 THEN TRUE ELSE s[i - 1] \notin face_letters

\* C37: apply_moves rejects a modifier that is not immediately preceded by
\* a face letter. A string with a '2' or a prime mark at its start, after
\* a '2' or after a prime mark (as in X'2, X2', X22, X'') makes the call
\* panic, also when all its characters are allowed ones; the cube is left
\* as it was.
C37_MisplacedModifier ==
    \A n \in DOMAIN notation :
        misplaced_modifier(notation[n])
            => /\ n = Len(notation)
               /\ mode = "panic"
               /\ cube = apply_movelist(Cube_new, history)

\* F'2: allowed characters only, and the call panicked
C37_Witness ==
    /\ notation = << <<"F", "'", "2">> >>
    /\ \A i \in DOMAIN notation[1] : notation[1][i] \in allowed_characters
    /\ mode = "panic"
    /\ cube = Cube_new


-----------------------------------------------------------------------------
(* disjoint_cycle_decompose (CycleSpec) *)

\* the places <<i, j>> of the entries of the cycles
places(cycles) ==
    UNION {{<<i, j>> : j \in DOMAIN cycles[i]} : i \in DOMAIN cycles}

\* what the claim says of the cycles returned for map
C38_Cycles ==
    LET map    == decomp.map
        cycles == decomp.cycles
    IN  /\ \A id \in DOMAIN map :
              Cardinality({p \in places(cycles) : cycles[p[1]][p[2]] = id}) = 1
        /\ \A p \in places(cycles) : cycles[p[1]][p[2]] \in DOMAIN map
        /\ \A i \in DOMAIN cycles : cycles[i] # <<>>
        /\ \A id \in DOMAIN map : map[id] = id => \E i \in DOMAIN cycles : cycles[i] = <<id>>
        /\ \A i \in DOMAIN cycles :
              /\ \A j \in 1..(Len(cycles[i]) - 1) : cycles[i][j + 1] = map[cycles[i][j]]
              /\ map[Last(cycles[i])] = cycles[i][1]
        /\ \A i \in 1..(Len(cycles) - 1) : Len(cycles[i]) >= Len(cycles[i + 1])

\* C38: for a bijective mapping, the corner and the edge permutation of a
\* reachable cube among them, disjoint_cycle_decompose terminates, without
\* a panic, and the cycles it returns partition the identifiers: every
\* identifier is in exactly one cycle, a fixed point is a cycle of length 1,
\* each element of a cycle is followed by what the mapping gives for it,
\* and the cycles come in non-increasing order of length.
C38_CycleDecomposition ==
    /\ [](decomp.pc = "returned" => C38_Cycles)
    /\ [](decomp.pc # "panic")
    /\ (decomp.pc = "for") ~> (decomp.pc = "returned")

\* the corners after F R: one long cycle, found first, and fixed points
C38_Witness ==
    /\ decomp.pc = "returned"
    /\ history = <<"F", "R">>
    /\ decomp.map = cube.sigma
    /\ Len(decomp.cycles) < Len(decomp.values)
    /\ Len(decomp.cycles[1]) > 1
    /\ Len(decomp.cycles[Len(decomp.cycles)]) = 1
    /\ decomp.values[1] = decomp.cycles[1][1]


=============================================================================
